---- MODULE Spec2Model ----
(***************************************************************************)
(* FastFoto back-side OCR: file pairing, date normalisation, extraction    *)
(* of EXIF mappings and the proposal writer / parser.                      *)
(*                                                                         *)
(* Text is modelled character by character: a Python str is a sequence of  *)
(* one-character strings, so that strip, startswith, split and the `in'    *)
(* test are computed as the code computes them.  The two non-ASCII         *)
(* characters of the proposal format are written by their code points      *)
(* ("U+2265", "U+26A0"), each one element of the sequence.  A piece of     *)
(* text written to a file is the sequence of its newline-terminated lines. *)
(***************************************************************************)
EXTENDS Integers, Sequences, FiniteSets, TLC

VARIABLES
    run,            \* which entry point this process runs
    entries,        \* ProposalGenerator.entries
    add_result,     \* outcome of the last add_entry call
    proposal_file,  \* content of output_path on disk (absent before write)
    write_result,   \* outcome of ProposalGenerator.write
    write_grouped,  \* the group_by_directory argument write was called with
    parsed,         \* result of InteractiveProcessor._parse_proposal_content
    tree,           \* the files on disk
    all_files,      \* discover_pairs: the glob results
    pairs,          \* discover_pairs: the returned list of PhotoPair
    orphaned,       \* discover_pairs: the orphan diagnostic
    discover_recursive, \* the recursive argument discover_pairs was called with
    discover_result, \* outcome of discover_pairs
    patterns,       \* the dict analyze_naming_patterns returned
    analyze_recursive, \* the recursive argument it was called with
    today,          \* the current date
    date_call,      \* the DateParser method called last
    date_input,   \* its argument (parse: a list of one string)
    parsed_dates,   \* the datetime or None of every string
    expansions,     \* the two-digit years expanded during the call
    best_date,      \* the result of get_best_date
    analysis,       \* the analysis file extract_exif_mappings was called on
    exif_mappings,  \* the result of extract_exif_mappings
    pairs_given,    \* the pairs create_proposal was called with
    create_result,  \* outcome of create_proposal
    stats,          \* the orchestrator's counters
    vision_analysis, \* the analysis extract_metadata_from_analysis was called on
    metadata_record, \* the metadata record it returned
    apply_file,     \* the proposal file written for a batch, with the user's mark
    apply_given,    \* the arguments and collaborators apply_proposal ran with
    apply_result,   \* its counters and the calls it made on the EXIF writer
    temp_dir,       \* whether the image processor's temp directory exists
    temp_files,     \* the files in it
    analyze_errors, \* stats['errors'] as analyze_back_scan counts it
    analyze_calls   \* the analyze_back_scan calls made so far

proposal_vars == <<entries, add_result, proposal_file, write_result, write_grouped, parsed>>
discovery_vars == <<tree, all_files, pairs, orphaned, discover_recursive, discover_result,
                   patterns, analyze_recursive>>

date_vars == <<today, date_call, date_input, parsed_dates, expansions, best_date>>

extract_vars == <<analysis, exif_mappings>>

orchestrator_vars == <<pairs_given, create_result, stats>>

metadata_vars == <<vision_analysis, metadata_record>>

apply_vars == <<apply_file, apply_given, apply_result>>
image_vars == <<temp_dir, temp_files, analyze_errors, analyze_calls>>

vars == <<run, proposal_vars, discovery_vars, date_vars, extract_vars, orchestrator_vars,
          metadata_vars, apply_vars, image_vars>>

----------------------------------------------------------------------------
(* Bounds of the model *)

MaxEntries == 3
MaxFiles == 4
MaxDates == 2
MaxFields == 2
MaxLines == 4
MaxPairs == 3
MaxApplied == 2
MaxCalls == 3

----------------------------------------------------------------------------
(* Optional values (Python None) *)

None == [some |-> FALSE]
Some(x) == [some |-> TRUE, val |-> x]

----------------------------------------------------------------------------
(* Python str operations *)

MinOf(S) == CHOOSE x \in S : \A y \in S : x <= y
MaxOf(S) == CHOOSE x \in S : \A y \in S : y <= x

IsSpace(c) == c \in {" ", "\t"}

Strip(s) ==
    LET nz == {i \in 1..Len(s) : ~IsSpace(s[i])}
    IN  IF nz = {} THEN <<>> ELSE SubSeq(s, MinOf(nz), MaxOf(nz))

StartsWith(s, p) == Len(p) <= Len(s) /\ SubSeq(s, 1, Len(p)) = p

EndsWith(s, p) == Len(p) <= Len(s) /\ SubSeq(s, Len(s) - Len(p) + 1, Len(s)) = p

\* str.find, 1-based; 0 when p does not occur in s
Find(s, p) ==
    LET hits == {i \in 1..(Len(s) - Len(p) + 1) : SubSeq(s, i, i + Len(p) - 1) = p}
    IN  IF hits = {} THEN 0 ELSE MinOf(hits)

Contains(s, p) == Find(s, p) # 0

\* s.split(p, 1): one part when p does not occur, else the text before and after
SplitOnce(s, p) ==
    LET i == Find(s, p)
    IN  IF i = 0 THEN <<s>>
        ELSE <<SubSeq(s, 1, i - 1), SubSeq(s, i + Len(p), Len(s))>>

Rep(c, n) == [i \in 1..n |-> c]

UpperCase == <<"A","B","C","D","E","F","G","H","I","J","K","L","M","N","O","P","Q","R","S","T","U","V","W","X","Y","Z">>
LowerCase == <<"a","b","c","d","e","f","g","h","i","j","k","l","m","n","o","p","q","r","s","t","u","v","w","x","y","z">>

LowerChar(c) ==
    IF \E i \in 1..26 : UpperCase[i] = c
    THEN LowerCase[CHOOSE i \in 1..26 : UpperCase[i] = c]
    ELSE c

UpperChar(c) ==
    IF \E i \in 1..26 : LowerCase[i] = c
    THEN UpperCase[CHOOSE i \in 1..26 : LowerCase[i] = c]
    ELSE c

Lower(s) == [i \in 1..Len(s) |-> LowerChar(s[i])]
Upper(s) == [i \in 1..Len(s) |-> UpperChar(s[i])]

\* Code-point order of the characters that occur in file names and fields
CharOrder == <<" ","-",".","/","0","1","2","3","4","5","6","7","8","9",":","A","B","C","D","E","F","G","H","I","J","K","L","M","N","O","P","Q","R","S","T","U","V","W","X","Y","Z","_","a","b","c","d","e","f","g","h","i","j","k","l","m","n","o","p","q","r","s","t","u","v","w","x","y","z">>

Code(c) == CHOOSE i \in 1..Len(CharOrder) : CharOrder[i] = c

\* s < t for str
RECURSIVE StrLess(_, _)
StrLess(s, t) ==
    IF t = <<>> THEN FALSE
    ELSE IF s = <<>> THEN TRUE
    ELSE IF s[1] = t[1] THEN StrLess(Tail(s), Tail(t))
    ELSE Code(s[1]) < Code(t[1])

\* a < b for tuples of str (pathlib compares paths by their parts)
RECURSIVE PartsLess(_, _)
PartsLess(a, b) ==
    IF b = <<>> THEN FALSE
    ELSE IF a = <<>> THEN TRUE
    ELSE IF a[1] = b[1] THEN PartsLess(Tail(a), Tail(b))
    ELSE StrLess(a[1], b[1])

\* sorted(S) for a set of str
RECURSIVE SortStrs(_)
SortStrs(S) ==
    IF S = {} THEN <<>>
    ELSE LET m == CHOOSE x \in S : \A y \in S \ {x} : StrLess(x, y)
         IN  <<m>> \o SortStrs(S \ {m})

\* sorted(S) for a set of paths
RECURSIVE SortPaths(_)
SortPaths(S) ==
    IF S = {} THEN <<>>
    ELSE LET m == CHOOSE x \in S : \A y \in S \ {x} : PartsLess(x, y)
         IN  <<m>> \o SortPaths(S \ {m})

\* the elements of a set of integers in increasing order
RECURSIVE SortInts(_)
SortInts(S) == IF S = {} THEN <<>> ELSE <<MinOf(S)>> \o SortInts(S \ {MinOf(S)})

RECURSIVE Flatten(_)
Flatten(ss) == IF ss = <<>> THEN <<>> ELSE Head(ss) \o Flatten(Tail(ss))

\* sep.join(items)
RECURSIVE Join(_, _)
Join(items, sep) ==
    IF items = <<>> THEN <<>>
    ELSE IF Len(items) = 1 THEN items[1]
    ELSE items[1] \o sep \o Join(Tail(items), sep)

RECURSIVE Sum(_)
Sum(s) == IF s = <<>> THEN 0 ELSE Head(s) + Sum(Tail(s))

Digit == <<"0","1","2","3","4","5","6","7","8","9">>

\* str(n) for n >= 0
RECURSIVE Dec(_)
Dec(n) == IF n < 10 THEN <<Digit[n + 1]>> ELSE Dec(n \div 10) \o <<Digit[(n % 10) + 1]>>

\* f"{n:04d}"
Pad4(n) == Rep("0", IF Len(Dec(n)) < 4 THEN 4 - Len(Dec(n)) ELSE 0) \o Dec(n)

\* num / den rounded to the nearest integer, ties to even (float formatting)
RoundDiv(num, den) ==
    LET q == num \div den
        r == num % den
    IN  IF 2 * r > den \/ (2 * r = den /\ q % 2 = 1) THEN q + 1 ELSE q

\* f"{x:.2f}" of a value held in hundredths
Fixed2(h) == Dec(h \div 100) \o <<".">> \o <<Digit[((h % 100) \div 10) + 1], Digit[(h % 10) + 1]>>

\* f"{x:.1f}" of a value held in tenths
Fixed1(t) == Dec(t \div 10) \o <<".">> \o <<Digit[(t % 10) + 1]>>

----------------------------------------------------------------------------
(* pathlib: a path is the tuple of its parts *)

PathName(p) == p[Len(p)]
PathParent(p) == SubSeq(p, 1, Len(p) - 1)

\* str(path) of an absolute POSIX path <<"/", a, b, ...>>
PathStr(p) == IF Len(p) = 1 THEN p[1] ELSE p[1] \o Join(Tail(p), <<"/">>)

\* path.suffix and path.stem: the last dot that is neither first nor last
LastDot(name) ==
    LET dots == {i \in 2..(Len(name) - 1) : name[i] = "."}
    IN  IF dots = {} THEN 0 ELSE MaxOf(dots)

PathSuffix(p) ==
    LET n == PathName(p) IN IF LastDot(n) = 0 THEN <<>> ELSE SubSeq(n, LastDot(n), Len(n))

PathStem(p) ==
    LET n == PathName(p) IN IF LastDot(n) = 0 THEN n ELSE SubSeq(n, 1, LastDot(n) - 1)

----------------------------------------------------------------------------
(* proposal_generator.py: ProposalEntry and ProposalGenerator *)

\* A field value is a str or a list of str
Str(s) == [kind |-> "str", s |-> s]
List(items) == [kind |-> "list", items |-> items]

\* dict item assignment d[k] = v
DictSet(d, k, v) == [x \in DOMAIN d \cup {k} |-> IF x = k THEN v ELSE d[x]]

EmptyDict == [x \in {} |-> None]

has_updates(e) == DOMAIN e.proposed_updates # {}

\* metadata.get('confidence', 0.0), in hundredths
confidence(e) == IF "confidence" \in DOMAIN e.metadata THEN e.metadata.confidence ELSE 0

\* metadata.get('warnings', [])
warnings(e) == IF "warnings" \in DOMAIN e.metadata THEN e.metadata.warnings ELSE <<>>

\* The back-scan suffix test of add_entry on the original's file name
M_GuardOnlyB(original_name) ==
    EndsWith(original_name, <<"_","b",".","j","p","g">>) \/ EndsWith(original_name, <<"_","b",".","j","p","e","g">>)

GuardRejects(original_name) ==
    \/ EndsWith(original_name, <<"_","a",".","j","p","g">>) \/ EndsWith(original_name, <<"_","a",".","j","p","e","g">>)
    \/ EndsWith(original_name, <<"_","b",".","j","p","g">>) \/ EndsWith(original_name, <<"_","b",".","j","p","e","g">>)

Rule80 == Rep("=", 80)
Dash80 == Rep("-", 80)

ConfidenceOf(es) == [i \in 1..Len(es) |-> confidence(es[i])]

NumWithUpdates(es) == Cardinality({i \in 1..Len(es) : has_updates(es[i])})

NumHigh(es) == Cardinality({i \in 1..Len(es) : confidence(es[i]) >= 80})
NumMedium(es) == Cardinality({i \in 1..Len(es) : 60 <= confidence(es[i]) /\ confidence(es[i]) < 80})
NumLow(es) == Cardinality({i \in 1..Len(es) : confidence(es[i]) < 60})

\* generate_header for a non-empty entry list (total = 0 divides by zero)
generate_header(es, now, output_name) ==
    LET total == Len(es)
        with_updates == NumWithUpdates(es)
        avg == RoundDiv(Sum(ConfidenceOf(es)), total)
    IN  << Rule80,
           <<"F","a","s","t","F","o","t","o"," ","O","C","R"," ","-"," ","E","X","I","F"," ","U","p","d","a","t","e"," ","P","r","o","p","o","s","a","l">>,
           <<"G","e","n","e","r","a","t","e","d",":"," ">> \o now,
           Rule80,
           <<>>,
           <<"S","U","M","M","A","R","Y",":">>,
           <<" "," ","T","o","t","a","l"," ","f","i","l","e","s"," ","a","n","a","l","y","z","e","d",":"," ">> \o Dec(total),
           <<" "," ","F","i","l","e","s"," ","w","i","t","h"," ","p","r","o","p","o","s","e","d"," ","u","p","d","a","t","e","s",":"," ">> \o Dec(with_updates) \o <<" ","(">>
               \o Fixed1(RoundDiv(1000 * with_updates, total)) \o <<"%",")">>,
           <<" "," ","F","i","l","e","s"," ","w","i","t","h","o","u","t"," ","u","p","d","a","t","e","s",":"," ">> \o Dec(total - with_updates),
           <<>>,
           <<"C","O","N","F","I","D","E","N","C","E"," ","D","I","S","T","R","I","B","U","T","I","O","N",":">>,
           <<" "," ","H","i","g","h"," ","(","U+2265","0",".","8",")",":"," ">> \o Dec(NumHigh(es)) \o <<" ","f","i","l","e","s">>,
           <<" "," ","M","e","d","i","u","m"," ","(","0",".","6","-","0",".","8",")",":"," ">> \o Dec(NumMedium(es)) \o <<" ","f","i","l","e","s">>,
           <<" "," ","L","o","w"," ","(","<","0",".","6",")",":"," ">> \o Dec(NumLow(es)) \o <<" ","f","i","l","e","s">>,
           <<" "," ","A","v","e","r","a","g","e"," ","c","o","n","f","i","d","e","n","c","e",":"," ">> \o Fixed2(avg),
           <<>>,
           <<"I","N","S","T","R","U","C","T","I","O","N","S",":">>,
           <<" "," ","1","."," ","R","e","v","i","e","w"," ","e","a","c","h"," ","p","r","o","p","o","s","e","d"," ","u","p","d","a","t","e"," ","b","e","l","o","w">>,
           <<" "," ","2","."," ","C","h","e","c","k"," ","f","o","r"," ","a","c","c","u","r","a","c","y"," ","o","f"," ","e","x","t","r","a","c","t","e","d"," ","d","a","t","e","s",","," ","l","o","c","a","t","i","o","n","s",","," ","a","n","d"," ","t","e","x","t">>,
           <<" "," ","3","."," ","T","o"," ","s","k","i","p"," ","a","n"," ","u","p","d","a","t","e",","," ","a","d","d"," ","\"","S","K","I","P",":","\""," ","a","t"," ","t","h","e"," ","s","t","a","r","t"," ","o","f"," ","t","h","a","t"," ","s","e","c","t","i","o","n">>,
           <<" "," ","4","."," ","T","o"," ","m","o","d","i","f","y"," ","a"," ","v","a","l","u","e",","," ","e","d","i","t"," ","i","t"," ","d","i","r","e","c","t","l","y"," ","i","n"," ","t","h","i","s"," ","f","i","l","e">>,
           <<" "," ","5","."," ","S","a","v","e"," ","a","n","d"," ","r","u","n"," ","w","i","t","h",":"," ","f","a","s","t","f","o","t","o","-","o","c","r"," ","a","p","p","l","y"," ","-","-","p","r","o","p","o","s","a","l"," ">> \o output_name,
           <<>>,
           Rule80,
           <<>> >>

key_fields ==
    << <<"D","a","t","e","T","i","m","e","O","r","i","g","i","n","a","l">>, <<"G","P","S","L","a","t","i","t","u","d","e">>, <<"G","P","S","L","o","n","g","i","t","u","d","e">>,
       <<"L","o","c","a","t","i","o","n","C","r","e","a","t","e","d","C","i","t","y">>, <<"L","o","c","a","t","i","o","n","C","r","e","a","t","e","d","C","o","u","n","t","r","y","N","a","m","e">>,
       <<"C","a","p","t","i","o","n","-","A","b","s","t","r","a","c","t">>, <<"K","e","y","w","o","r","d","s">>, <<"I","m","a","g","e","U","n","i","q","u","e","I","D">> >>

\* Truncate long values: s[:57] + "..." when len(s) > 60
Elide(s) == IF Len(s) > 60 THEN SubSeq(s, 1, 57) \o <<".",".",".">> ELSE s

\* The display form of a proposed value
value_str(v) ==
    IF v.kind = "list"
    THEN LET n == Len(v.items)
             shown == Join(SubSeq(v.items, 1, IF n > 5 THEN 5 ELSE n), <<","," ">>)
         IN  IF n > 5 THEN shown \o <<" ",".",".","."," ","(","+">> \o Dec(n - 5) \o <<" ","m","o","r","e",")">> ELSE shown
    ELSE Elide(v.s)

\* One line per key field with a truthy current value
RECURSIVE CurrentLines(_, _)
CurrentLines(e, fields) ==
    IF fields = <<>> THEN <<>>
    ELSE LET f == Head(fields)
             here == IF f \in DOMAIN e.current_exif /\ e.current_exif[f] # <<>>
                        /\ e.current_exif[f] # <<"<","n","o","t"," ","s","e","t",">">>
                     THEN << <<" "," "," "," ">> \o f \o <<":"," ">> \o Elide(e.current_exif[f]) >>
                     ELSE <<>>
         IN  here \o CurrentLines(e, Tail(fields))

ProposedLines(e) ==
    LET fs == SortStrs(DOMAIN e.proposed_updates)
    IN  [i \in 1..Len(fs) |-> <<" "," "," "," ">> \o fs[i] \o <<":"," ">> \o value_str(e.proposed_updates[fs[i]])]

WarningLines(e) ==
    IF warnings(e) = <<>> THEN <<>>
    ELSE << <<>>, <<" "," ","W","A","R","N","I","N","G","S",":">> >>
         \o [i \in 1..Len(warnings(e)) |-> <<" "," "," "," ","U+26A0"," ">> \o warnings(e)[i]]

MetadataLines(e) ==
    << <<>>, <<" "," ","E","X","T","R","A","C","T","I","O","N"," ","M","E","T","A","D","A","T","A",":">> >>
    \o (IF "source" \in DOMAIN e.metadata
        THEN << <<" "," "," "," ","S","o","u","r","c","e",":"," ">> \o e.metadata.source >> ELSE <<>>)
    \o (IF "language" \in DOMAIN e.metadata
        THEN << <<" "," "," "," ","L","a","n","g","u","a","g","e",":"," ">> \o e.metadata.language >> ELSE <<>>)
    \o (IF "zones_found" \in DOMAIN e.metadata
        THEN << <<" "," "," "," ","Z","o","n","e","s"," ","w","i","t","h"," ","d","a","t","a",":"," ">> \o Join(e.metadata.zones_found, <<","," ">>) >> ELSE <<>>)

\* The header line of an entry
EntryHeader(index, e) == <<"[">> \o Pad4(index) \o <<"]"," ">> \o PathName(e.original_path)

\* The back-scan line of an entry
BackLine(e) == <<" "," ","B","a","c","k"," ","s","c","a","n",":"," ">> \o PathName(e.back_path.val)

\* format_entry: the lines of one entry
format_entry(index, e) ==
    LET head == << <<>>, EntryHeader(index, e) >>
    IN  IF ~e.back_path.some
        THEN head \o << <<" "," ","N","o"," ","b","a","c","k"," ","s","c","a","n"," ","f","o","u","n","d"," ","-"," ","s","k","i","p","p","e","d">> >>
        ELSE IF ~has_updates(e)
        THEN head \o << BackLine(e),
                        <<" "," ","C","o","n","f","i","d","e","n","c","e",":"," ">> \o Fixed2(confidence(e)),
                        <<" "," ","S","t","a","t","u","s",":"," ","N","o"," ","u","s","e","f","u","l"," ","m","e","t","a","d","a","t","a"," ","e","x","t","r","a","c","t","e","d">> >>
        ELSE head
             \o << BackLine(e), <<" "," ","C","o","n","f","i","d","e","n","c","e",":"," ">> \o Fixed2(confidence(e)) >>
             \o << <<>>, <<" "," ","C","U","R","R","E","N","T"," ","E","X","I","F",":">> >> \o CurrentLines(e, key_fields)
             \o << <<>>, <<" "," ","P","R","O","P","O","S","E","D"," ","U","P","D","A","T","E","S",":">> >> \o ProposedLines(e)
             \o WarningLines(e)
             \o MetadataLines(e)

\* generate_directory_summary
generate_directory_summary(directory, es) ==
    << <<>>,
       Dash80,
       <<"D","i","r","e","c","t","o","r","y",":"," ">> \o PathStr(directory),
       <<" "," ","F","i","l","e","s",":"," ">> \o Dec(Len(es)) \o <<" ","|"," ","W","i","t","h"," ","u","p","d","a","t","e","s",":"," ">> \o Dec(NumWithUpdates(es))
           \o <<" ","|"," ","A","v","e","r","a","g","e"," ","c","o","n","f","i","d","e","n","c","e",":"," ">>
           \o Fixed2(IF Len(es) > 0 THEN RoundDiv(Sum(ConfidenceOf(es)), Len(es)) ELSE 0),
       Dash80 >>

\* by_directory[d]: the indices of the entries whose parent is d, in insertion order
InDirectory(es, d) == SortInts({i \in 1..Len(es) : PathParent(es[i].original_path) = d})

Directories(es) == SortPaths({PathParent(es[i].original_path) : i \in 1..Len(es)})

\* The entries of write, directory by directory, with the running global index
RECURSIVE WriteDirectories(_, _, _)
WriteDirectories(es, dirs, global_index) ==
    IF dirs = <<>> THEN <<>>
    ELSE LET idx == InDirectory(es, Head(dirs))
             here == [k \in 1..Len(idx) |-> es[idx[k]]]
         IN  generate_directory_summary(Head(dirs), here)
             \o Flatten([k \in 1..Len(idx) |->
                            format_entry(global_index + k - 1, es[idx[k]])])
             \o WriteDirectories(es, Tail(dirs), global_index + Len(idx))

Footer == << <<>>, Rule80, <<"E","N","D"," ","O","F"," ","P","R","O","P","O","S","A","L">>, Rule80 >>

\* The text write puts into the file when generate_header does not raise
write_content(es, group_by_directory, now, output_name) ==
    generate_header(es, now, output_name)
    \o (IF group_by_directory
        THEN WriteDirectories(es, Directories(es), 1)
        ELSE Flatten([i \in 1..Len(es) |-> format_entry(i, es[i])]))
    \o Footer

----------------------------------------------------------------------------
(* interactive_processor.py: InteractiveProcessor._parse_proposal_content *)

\* content.split('\n') of a text given as its newline-terminated lines
SplitLines(content) == Append(content, <<>>)

M_NewEntrySkipped(original_path) ==
    [original_path |-> original_path, skip |-> TRUE,
     proposed_updates |-> EmptyDict, back_path |-> None]

new_entry(original_path) ==
    [original_path |-> original_path, skip |-> FALSE,
     proposed_updates |-> EmptyDict, back_path |-> None]

descriptive_fields == { <<"C","o","n","f","i","d","e","n","c","e">>, <<"S","o","u","r","c","e">>, <<"L","a","n","g","u","a","g","e">>, <<"N","o","t","e">>, <<"Z","o","n","e","s"," ","w","i","t","h"," ","d","a","t","a">> }

\* The lines the parser drops before looking for markers
IsIgnored(line) ==
    \/ line = <<>>
    \/ StartsWith(line, <<"=">>)
    \/ StartsWith(line, <<"S","U","M","M","A","R","Y",":">>)
    \/ StartsWith(line, <<"I","N","S","T","R","U","C","T","I","O","N","S",":">>)

\* The test for an entry header
M_HeaderOnlyFirstIndex(line) == StartsWith(line, <<"[","0","0","0","1","]"," ">>)

IsEntryHeader(line) == StartsWith(line, <<"[">>) /\ Contains(line, <<"]"," ">>)

\* The test that sends a line to the field parser; line is already stripped
IsFieldLine(line) ==
    /\ Contains(line, <<":">>)
    /\ ~StartsWith(line, <<" "," ">>)
    /\ ~Contains(line, <<"E","X","I","F">>)
    /\ ~Contains(line, <<"M","E","T","A","D","A","T","A">>)

\* One iteration of the loop over the lines; st = [entries, current_entry]
parse_line(st, raw) ==
    LET line == Strip(raw)
        cur == st.current_entry
    IN  IF IsIgnored(line) THEN st
        ELSE IF StartsWith(line, <<"S","K","I","P",":">>)
        THEN IF cur.some
             THEN [st EXCEPT !.current_entry = Some([cur.val EXCEPT !.skip = TRUE])]
             ELSE st
        ELSE IF IsEntryHeader(line)
        THEN [entries |-> IF cur.some THEN Append(st.entries, cur.val) ELSE st.entries,
              current_entry |-> Some(new_entry(Strip(SplitOnce(line, <<"]"," ">>)[2])))]
        ELSE IF ~cur.some THEN st
        ELSE IF StartsWith(line, <<"B","a","c","k"," ","s","c","a","n",":">>)
        THEN [st EXCEPT !.current_entry =
                 Some([cur.val EXCEPT !.back_path = Some(Strip(SplitOnce(line, <<":">>)[2]))])]
        ELSE IF IsFieldLine(line)
        THEN LET field == Strip(SplitOnce(line, <<":">>)[1])
                 value == Strip(SplitOnce(line, <<":">>)[2])
             IN  IF field \in descriptive_fields THEN st
                 ELSE IF value # <<>> /\ value # <<"<","n","o","t"," ","s","e","t",">">>
                 THEN [st EXCEPT !.current_entry =
                          Some([cur.val EXCEPT !.proposed_updates = DictSet(cur.val.proposed_updates, field, value)])]
                 ELSE st
        ELSE st

\* The loop over lines[lo..hi], in two halves.  The test on the first half's
\* result is always true: it makes the first half evaluated before the second,
\* which keeps the evaluation shallow.
RECURSIVE parse_lines(_, _, _, _)
parse_lines(st, lines, lo, hi) ==
    IF lo > hi THEN st
    ELSE IF lo = hi THEN parse_line(st, lines[lo])
    ELSE LET mid == (lo + hi) \div 2
             first == parse_lines(st, lines, lo, mid)
         IN  IF Len(first.entries) >= 0
             THEN parse_lines(first, lines, mid + 1, hi)
             ELSE first

\* The parser without the flush of the last open entry
M_ParseWithoutFinalFlush(content) ==
    LET lines == SplitLines(content)
    IN  parse_lines([entries |-> <<>>, current_entry |-> None], lines, 1, Len(lines)).entries

_parse_proposal_content(content) ==
    LET lines == SplitLines(content)
        st == parse_lines([entries |-> <<>>, current_entry |-> None], lines, 1, Len(lines))
    IN  IF st.current_entry.some THEN Append(st.entries, st.current_entry.val) ELSE st.entries

----------------------------------------------------------------------------
(* The proposal run: entries are added, the proposal is written, and the   *)
(* written file is parsed back                                             *)

DirA == << <<"/">>, <<"p">>, <<"a">> >>
DirB == << <<"/">>, <<"p">>, <<"b">> >>

NoMetadata == [x \in {} |-> 0]

Entry(original, back, current, proposed, metadata) ==
    [original_path |-> original, back_path |-> back, current_exif |-> current,
     proposed_updates |-> proposed, metadata |-> metadata]

\* A back scan with a date, a place, a list and a long caption
EntryFull ==
    Entry(Append(DirA, <<"I","M","G","_","1",".","j","p","g">>), Some(Append(DirA, <<"I","M","G","_","1","_","b",".","j","p","g">>)),
          <<"D","a","t","e","T","i","m","e","O","r","i","g","i","n","a","l">> :> <<"2","0","2","0",":","0","1",":","0","1"," ","0","0",":","0","0",":","0","0">>,
          (<<"D","a","t","e","T","i","m","e","O","r","i","g","i","n","a","l">> :> Str(<<"1","9","9","9",":","0","6",":","0","7"," ","1","1",":","3","2",":","0","0">>))
              @@ (<<"L","o","c","a","t","i","o","n","C","r","e","a","t","e","d","C","i","t","y">> :> Str(<<"U","t","r","e","c","h","t">>))
              @@ (<<"K","e","y","w","o","r","d","s">> :> List(<< <<"A","n","a">>, <<"L","u","i","s">>, <<"E","v","a">>, <<"J","u","a","n">>, <<"R","o","s","a">>, <<"P","e","p","e">> >>))
              @@ (<<"C","a","p","t","i","o","n","-","A","b","s","t","r","a","c","t">> :>
                    Str(<<"S","u","m","m","e","r"," ","v","a","c","a","t","i","o","n"," ","a","t"," ","t","h","e"," ","l","a","k","e"," ","h","o","u","s","e"," ","w","i","t","h"," ","t","h","e"," ","w","h","o","l","e"," ","f","a","m","i","l","y",","," ","J","u","n","e"," ","1","9","9","9">>)),
          [confidence |-> 92, source |-> <<"Z","o","n","e"," ","1"," ","+"," ","Z","o","n","e"," ","4">>, language |-> <<"e","n">>,
           zones_found |-> << <<"z","o","n","e","_","1","_","b","o","t","t","o","m","_","e","d","g","e">>, <<"z","o","n","e","_","4","_","h","a","n","d","w","r","i","t","t","e","n">> >>,
           warnings |-> << <<"F","i","l","e","n","a","m","e"," ","s","u","g","g","e","s","t","s"," ","2","0","0","1",","," ","O","C","R"," ","d","a","t","e"," ","i","s"," ","1","9","9","9">> >>])

\* A back scan with one short proposed value; the photo already has keywords
EntryCaption ==
    Entry(Append(DirB, <<"I","M","G","_","1",".","j","p","g">>), Some(Append(DirB, <<"I","M","G","_","1","_","b",".","j","p","g">>)),
          <<"K","e","y","w","o","r","d","s">> :> <<"f","a","m","i","l","y">>,
          <<"C","a","p","t","i","o","n","-","A","b","s","t","r","a","c","t">> :> Str(<<"S","u","m","m","e","r">>),
          [confidence |-> 72])

\* A photo without a back scan
EntryNoBack ==
    Entry(Append(DirA, <<"I","M","G","_","2",".","j","p","g">>), None, EmptyDict, EmptyDict, NoMetadata)

\* A back scan from which nothing useful was extracted
EntryNoUseful ==
    Entry(Append(DirB, <<"I","M","G","_","3",".","j","p","g">>), Some(Append(DirB, <<"I","M","G","_","3","_","b",".","j","p","g">>)),
          EmptyDict, EmptyDict, [confidence |-> 52])

\* An entry that names a back scan as its original
EntryBad(name) ==
    Entry(Append(DirA, name), Some(Append(DirA, name)), EmptyDict, EmptyDict, NoMetadata)

BadNames == { <<"I","M","G","_","4","_","b",".","j","p","g">>, <<"I","M","G","_","4","_","a",".","j","p","g">>, <<"I","M","G","_","4","_","a",".","j","p","e","g">>, <<"I","M","G","_","4","_","b",".","j","p","e","g">> }

\* A back scan (in the sense of FileDiscovery.is_back_file) named as original
EntryUpperBack == EntryBad(<<"I","M","G","_","4","_","B",".","j","p","g">>)

EntryChoices ==
    { EntryFull, EntryCaption, EntryNoBack, EntryNoUseful, EntryUpperBack }
    \cup { EntryBad(n) : n \in BadNames }

\* datetime.now().strftime('%Y-%m-%d %H:%M:%S')
Clock == { <<"2","0","2","5","-","0","3","-","0","9"," ","1","0",":","1","5",":","0","0">>, <<"2","0","2","5","-","1","1","-","3","0"," ","2","3",":","5","9",":","5","9">> }

\* output_path.name
OutputName == <<"p","r","o","p","o","s","a","l",".","t","x","t">>

\* ProposalGenerator.add_entry
AddEntry(e) ==
    /\ run = "proposal"
    /\ write_result = "none"
    /\ Len(entries) < MaxEntries
    /\ IF GuardRejects(PathName(e.original_path))
       THEN add_result' = "ValueError" /\ UNCHANGED entries
       ELSE add_result' = "ok" /\ entries' = Append(entries, e)
    /\ UNCHANGED <<run, proposal_file, write_result, write_grouped, parsed>>
    /\ UNCHANGED <<discovery_vars, date_vars, extract_vars, orchestrator_vars, metadata_vars, apply_vars, image_vars>>

\* ProposalGenerator.write: open(output_path, 'w') truncates the file, then
\* generate_header divides by the number of entries
Write(group_by_directory, now) ==
    /\ run = "proposal"
    /\ write_result = "none"
    /\ IF Len(entries) = 0
       THEN /\ proposal_file' = Some(<<>>)
            /\ write_result' = "ZeroDivisionError"
       ELSE /\ proposal_file' = Some(write_content(entries, group_by_directory, now, OutputName))
            /\ write_result' = "ok"
    /\ write_grouped' = Some(group_by_directory)
    /\ UNCHANGED <<run, entries, add_result, parsed>>
    /\ UNCHANGED <<discovery_vars, date_vars, extract_vars, orchestrator_vars, metadata_vars, apply_vars, image_vars>>

\* InteractiveProcessor._parse_proposal_content on the file as written
ParseProposal ==
    /\ run = "proposal"
    /\ proposal_file.some
    /\ ~parsed.some
    /\ parsed' = Some(_parse_proposal_content(proposal_file.val))
    /\ UNCHANGED <<run, entries, add_result, proposal_file, write_result, write_grouped>>
    /\ UNCHANGED <<discovery_vars, date_vars, extract_vars, orchestrator_vars, metadata_vars, apply_vars, image_vars>>

NextProposal ==
    \/ \E e \in EntryChoices : AddEntry(e)
    \/ \E g \in BOOLEAN, now \in Clock : Write(g, now)
    \/ ParseProposal

----------------------------------------------------------------------------
(* file_discovery.py: FileDiscovery *)

DEFAULT_EXTENSIONS ==
    << <<".","j","p","g">>, <<".","j","p","e","g">>, <<".","t","i","f">>, <<".","t","i","f","f">>, <<".","J","P","G">>, <<".","J","P","E","G">>, <<".","T","I","F">>, <<".","T","I","F","F">> >>

DEFAULT_BACK_SUFFIXES == << <<"_","b">>, <<"_","B">> >>

\* s.replace(old, new), leftmost occurrences first
RECURSIVE Replace(_, _, _)
Replace(s, old, new) ==
    LET i == Find(s, old)
    IN  IF i = 0 THEN s
        ELSE SubSeq(s, 1, i - 1) \o new \o Replace(SubSeq(s, i + Len(old), Len(s)), old, new)

is_photo_file(path) ==
    \E i \in 1..Len(DEFAULT_EXTENSIONS) : PathSuffix(path) = DEFAULT_EXTENSIONS[i]

M_BackOnlyLowerSuffix(path) ==
    is_photo_file(path) /\ EndsWith(PathStem(path), DEFAULT_BACK_SUFFIXES[1])

is_back_file(path) ==
    /\ is_photo_file(path)
    /\ \E i \in 1..Len(DEFAULT_BACK_SUFFIXES) : EndsWith(PathStem(path), DEFAULT_BACK_SUFFIXES[i])

\* back_path.parent / f"{original_stem}{ext}"
Sibling(path, stem, ext) == Append(PathParent(path), stem \o ext)

\* Patterns 3 to 5 of get_original_path: the stem without the word, or the
\* next pattern when nothing is left of the stem
WithoutWord(path, word, otherwise) ==
    LET stem == PathStem(path)
        original_stem ==
            Replace(Replace(Replace(stem, <<"_">> \o word, <<>>), word \o <<"_">>, <<>>), word, <<>>)
    IN  IF Contains(Lower(PathName(path)), word) /\ original_stem # <<>>
        THEN Sibling(path, original_stem, PathSuffix(path))
        ELSE otherwise

get_original_path(back_path) ==
    LET stem == PathStem(back_path)
        ext == PathSuffix(back_path)
        name_lower == Lower(PathName(back_path))
        first == IF EndsWith(stem, DEFAULT_BACK_SUFFIXES[1]) THEN 1 ELSE 2
    IN  IF \E i \in 1..Len(DEFAULT_BACK_SUFFIXES) : EndsWith(stem, DEFAULT_BACK_SUFFIXES[i])
        THEN Sibling(back_path,
                     SubSeq(stem, 1, Len(stem) - Len(DEFAULT_BACK_SUFFIXES[first])), ext)
        ELSE IF StartsWith(name_lower, <<"f","a","s","t","f","o","t","o","_">>) THEN back_path
        ELSE WithoutWord(back_path, <<"b","a","c","k">>,
                 WithoutWord(back_path, <<"r","e","v","e","r","s","e">>,
                     WithoutWord(back_path, <<"r","e","a","r">>, back_path)))

\* root_dir.glob(pattern + ext): the files below root_dir (its direct children
\* when not recursive) whose name matches *ext
GlobMatches(files, root_dir, recursive, ext) ==
    { f \in files :
        /\ Len(f) > Len(root_dir)
        /\ SubSeq(f, 1, Len(root_dir)) = root_dir
        /\ recursive \/ Len(f) = Len(root_dir) + 1
        /\ EndsWith(PathName(f), ext) }

\* The orders in which a directory scan can yield the files of a set
Orders(S) ==
    { o \in [1..Cardinality(S) -> S] : \A i, j \in 1..Cardinality(S) : o[i] = o[j] => i = j }

\* all_files: the glob results of the extensions, one after the other
RECURSIVE GlobAll(_, _, _, _)
GlobAll(files, root_dir, recursive, exts) ==
    IF exts = <<>> THEN { <<>> }
    ELSE { a \o b : a \in Orders(GlobMatches(files, root_dir, recursive, Head(exts))),
                    b \in GlobAll(files, root_dir, recursive, Tail(exts)) }

\* back_files after the separation loop: original path -> back file, a later
\* back file replacing an earlier one with the same original
RECURSIVE back_files(_)
back_files(fs) ==
    IF fs = <<>> THEN EmptyDict
    ELSE LET f == fs[Len(fs)]
             before == back_files(SubSeq(fs, 1, Len(fs) - 1))
         IN  IF is_back_file(f) THEN DictSet(before, get_original_path(f), f) ELSE before

\* original_files after the separation loop
RECURSIVE original_files(_)
original_files(fs) ==
    IF fs = <<>> THEN <<>>
    ELSE (IF is_back_file(Head(fs)) THEN <<>> ELSE << Head(fs) >>) \o original_files(Tail(fs))

\* The pairs, one per original in sorted order (the glob results of the
\* extensions are disjoint, so no original is listed twice)
make_pairs(originals, backs) ==
    LET sorted == SortPaths({ originals[i] : i \in 1..Len(originals) })
    IN  [i \in 1..Len(sorted) |->
            [original |-> sorted[i],
             back |-> IF sorted[i] \in DOMAIN backs THEN Some(backs[sorted[i]]) ELSE None]]

\* The orphan diagnostic: all_backs - paired_backs
orphaned_backs(fs) ==
    LET backs == back_files(fs)
        paired_backs == { backs[o] : o \in DOMAIN backs }
        all_backs == { fs[i] : i \in { j \in 1..Len(fs) : is_back_file(fs[j]) } }
    IN  all_backs \ paired_backs

----------------------------------------------------------------------------
(* The discovery run: discover_pairs on a directory tree *)

RootDir == << <<"/">>, <<"r">> >>

\* The files that may exist below (and beside) the root directory
FileChoices ==
    { Append(RootDir, <<"I","M","G","_","1",".","j","p","g">>),
      Append(RootDir, <<"I","M","G","_","1","_","b",".","j","p","g">>),
      Append(RootDir, <<"I","M","G","_","1","_","B",".","j","p","g">>),
      Append(RootDir, <<"I","M","G","_","9","_","b",".","j","p","g">>),
      Append(RootDir, <<"n","o","t","e","s",".","t","x","t">>),
      Append(RootDir, <<"_","b",".","j","p","e","g">>),
      Append(Append(RootDir, <<"s","u","b">>), <<"I","M","G","_","2",".","T","I","F">>),
      Append(Append(RootDir, <<"s","u","b">>), <<"I","M","G","_","2","_","b",".","T","I","F">>),
      Append(RootDir, <<"F","a","s","t","F","o","t","o","_","7","_","a",".","j","p","g">>),
      << <<"/">>, <<"q">>, <<"I","M","G","_","1",".","j","p","g">> >> }

TreeChoices == { t \in SUBSET FileChoices : Cardinality(t) <= MaxFiles }

\* FileDiscovery.discover_pairs on an existing root directory
Discover(recursive) ==
    /\ run = "discovery"
    /\ discover_result = "none"
    /\ \E fs \in GlobAll(tree, RootDir, recursive, DEFAULT_EXTENSIONS) :
           /\ all_files' = fs
           /\ pairs' = make_pairs(original_files(fs), back_files(fs))
           /\ orphaned' = orphaned_backs(fs)
    /\ discover_recursive' = Some(recursive)
    /\ discover_result' = "ok"
    /\ UNCHANGED <<run, tree, patterns, analyze_recursive>>
    /\ UNCHANGED <<proposal_vars, date_vars, extract_vars, orchestrator_vars, metadata_vars, apply_vars, image_vars>>

NextDiscovery == \E recursive \in BOOLEAN : Discover(recursive)

----------------------------------------------------------------------------
(* file_discovery.py: FileDiscovery.analyze_naming_patterns *)

suspicious_patterns == { <<"s","i","d","e">>, <<"v","e","r","s","o">>, <<"f","l","i","p">>, <<"o","t","h","e","r">>, <<"s","c","a","n">> }

\* The list of patterns a file is appended to
pattern_of(file_path) ==
    IF \E i \in 1..Len(DEFAULT_BACK_SUFFIXES) :
           EndsWith(PathStem(file_path), DEFAULT_BACK_SUFFIXES[i])
    THEN "_b_suffix"
    ELSE IF StartsWith(Lower(PathName(file_path)), <<"f","a","s","t","f","o","t","o","_">>) THEN "fastfoto_prefix"
    ELSE IF Contains(Lower(PathName(file_path)), <<"b","a","c","k">>) THEN "back_in_name"
    ELSE IF Contains(Lower(PathName(file_path)), <<"r","e","v","e","r","s","e">>) THEN "reverse_in_name"
    ELSE IF Contains(Lower(PathName(file_path)), <<"r","e","a","r">>) THEN "rear_in_name"
    ELSE IF \E keyword \in suspicious_patterns : Contains(Lower(PathName(file_path)), keyword)
    THEN "unrecognized_patterns"
    ELSE "main_photos"

BackScanLists ==
    { "_b_suffix", "fastfoto_prefix", "back_in_name", "reverse_in_name", "rear_in_name" }

\* all_files of analyze_naming_patterns, as a set (no file matches two of the
\* extension patterns)
GlobSet(files, root_dir, recursive) ==
    UNION { GlobMatches(files, root_dir, recursive, DEFAULT_EXTENSIONS[i]) :
              i \in 1..Len(DEFAULT_EXTENSIONS) }

\* The returned dict for the files found; each list is held as the set of
\* its files and the percentage as the fraction it is computed from
patterns_of(found) ==
    [total_files |-> Cardinality(found),
     back_scans |->
         [k \in BackScanLists \cup { "total_back_scans" } |->
             IF k = "total_back_scans"
             THEN Cardinality({ f \in found : pattern_of(f) \in BackScanLists })
             ELSE { f \in found : pattern_of(f) = k }],
     main_photos |-> { f \in found : pattern_of(f) = "main_photos" },
     unrecognized_patterns |-> { f \in found : pattern_of(f) = "unrecognized_patterns" },
     back_scan_percentage |->
         IF Cardinality(found) > 0
         THEN << 100 * Cardinality({ f \in found : pattern_of(f) \in BackScanLists }),
                 Cardinality(found) >>
         ELSE << 0, 1 >>]

\* FileDiscovery.analyze_naming_patterns on the existing root directory
AnalyzeNamingPatterns(recursive) ==
    /\ run = "discovery"
    /\ ~patterns.some
    /\ patterns' = Some(patterns_of(GlobSet(tree, RootDir, recursive)))
    /\ analyze_recursive' = Some(recursive)
    /\ UNCHANGED <<run, tree, all_files, pairs, orphaned, discover_recursive, discover_result>>
    /\ UNCHANGED <<proposal_vars, date_vars, extract_vars, orchestrator_vars, metadata_vars, apply_vars, image_vars>>

NextPatterns == \E recursive \in BOOLEAN : AnalyzeNamingPatterns(recursive)
----------------------------------------------------------------------------
(* date_parser.py: DateParser *)

\* collection_date_range of DateParser.__init__
min_year == 1966
max_year == 2002

\* s[i], or no character when i is outside s
At(s, i) == IF i \in 1..Len(s) THEN s[i] ELSE ""

IsDigit(c) == \E i \in 1..10 : Digit[i] = c
IsUpper(c) == \E i \in 1..26 : UpperCase[i] = c
IsLower(c) == \E i \in 1..26 : LowerCase[i] = c

\* \w of the re module
IsWord(c) == IsDigit(c) \/ IsUpper(c) \/ IsLower(c) \/ c = "_"

DigitVal(c) == (CHOOSE i \in 1..10 : Digit[i] = c) - 1

\* int(s) for a string of digits
RECURSIVE ToInt(_)
ToInt(s) == IF s = <<>> THEN 0 ELSE 10 * ToInt(SubSeq(s, 1, Len(s) - 1)) + DigitVal(s[Len(s)])

\* datetime(year, month, day, hour, minute)
DateTime(year, month, day, hour, minute) ==
    [year |-> year, month |-> month, day |-> day, hour |-> hour, minute |-> minute]

IsLeap(year) == year % 4 = 0 /\ (year % 100 # 0 \/ year % 400 = 0)

DaysInMonth(year, month) ==
    IF month = 2 THEN (IF IsLeap(year) THEN 29 ELSE 28)
    ELSE IF month \in {4, 6, 9, 11} THEN 30 ELSE 31

\* The arguments the datetime constructor accepts (others raise ValueError)
ValidDateTime(year, month, day, hour, minute) ==
    /\ year \in 1..9999
    /\ month \in 1..12
    /\ day \in 1..DaysInMonth(year, month)
    /\ hour \in 0..23
    /\ minute \in 0..59

SPANISH_MONTHS ==
    << <<"e","n","e","r","o">>, <<"f","e","b","r","e","r","o">>, <<"m","a","r","z","o">>, <<"a","b","r","i","l">>, <<"m","a","y","o">>, <<"j","u","n","i","o">>, <<"j","u","l","i","o">>,
       <<"a","g","o","s","t","o">>, <<"s","e","p","t","i","e","m","b","r","e">>, <<"o","c","t","u","b","r","e">>, <<"n","o","v","i","e","m","b","r","e">>, <<"d","i","c","i","e","m","b","r","e">> >>

english_months ==
    << <<"J","a","n","u","a","r","y">>, <<"F","e","b","r","u","a","r","y">>, <<"M","a","r","c","h">>, <<"A","p","r","i","l">>, <<"M","a","y">>, <<"J","u","n","e">>, <<"J","u","l","y">>,
       <<"A","u","g","u","s","t">>, <<"S","e","p","t","e","m","b","e","r">>, <<"O","c","t","o","b","e","r">>, <<"N","o","v","e","m","b","e","r">>, <<"D","e","c","e","m","b","e","r">> >>

MONTH_CODES ==
    << <<"J","A","N">>, <<"F","E","B">>, <<"M","A","R">>, <<"A","P","R">>, <<"M","A","Y">>, <<"J","U","N">>,
       <<"J","U","L">>, <<"A","U","G">>, <<"S","E","P">>, <<"O","C","T">>, <<"N","O","V">>, <<"D","E","C">> >>

\* The replacement loop of _normalize_spanish from month k on
RECURSIVE ReplaceMonths(_, _)
ReplaceMonths(normalized, k) ==
    IF k > Len(SPANISH_MONTHS) THEN normalized
    ELSE ReplaceMonths(Replace(normalized, SPANISH_MONTHS[k], english_months[k]), k + 1)

_normalize_spanish(date_str) == ReplaceMonths(Lower(date_str), 1)

_two_digit_year_to_full(yy) == IF yy <= 30 THEN 2000 + yy ELSE 1900 + yy

\* dt.replace(year=corrected_year) when dt.year < 100
_fix_century(dt) ==
    IF dt.year < 100 THEN [dt EXCEPT !.year = _two_digit_year_to_full(dt.year)] ELSE dt

\* aps_pattern matched at position i of the upper-cased text:
\* (\d{2})/([A-Z]{3})/(\d{1,2})\s+(\d{1,2}):(\d{2})(AM|PM)
ApsAt(u, i) ==
    LET nd == IF IsDigit(At(u, i + 8)) THEN 2 ELSE 1
        ws == i + 7 + nd
        nonspace == { k \in ws..(Len(u) + 1) : ~IsSpace(At(u, k)) }
        hh == MinOf(nonspace)
        nh == IF IsDigit(At(u, hh + 1)) THEN 2 ELSE 1
        colon == hh + nh
    IN  /\ IsDigit(At(u, i)) /\ IsDigit(At(u, i + 1))
        /\ At(u, i + 2) = "/"
        /\ IsUpper(At(u, i + 3)) /\ IsUpper(At(u, i + 4)) /\ IsUpper(At(u, i + 5))
        /\ At(u, i + 6) = "/"
        /\ IsDigit(At(u, i + 7))
        /\ IsSpace(At(u, ws))
        /\ IsDigit(At(u, hh))
        /\ At(u, colon) = ":"
        /\ IsDigit(At(u, colon + 1)) /\ IsDigit(At(u, colon + 2))
        /\ At(u, colon + 3) \in {"A", "P"} /\ At(u, colon + 4) = "M"

\* match.groups() of the APS match at position i
ApsGroups(u, i) ==
    LET nd == IF IsDigit(At(u, i + 8)) THEN 2 ELSE 1
        hh == MinOf({ k \in (i + 7 + nd)..(Len(u) + 1) : ~IsSpace(At(u, k)) })
        nh == IF IsDigit(At(u, hh + 1)) THEN 2 ELSE 1
    IN  [yy |-> ToInt(SubSeq(u, i, i + 1)),
         mon |-> SubSeq(u, i + 3, i + 5),
         d |-> ToInt(SubSeq(u, i + 7, i + 6 + nd)),
         h |-> ToInt(SubSeq(u, hh, hh + nh - 1)),
         m |-> ToInt(SubSeq(u, hh + nh + 1, hh + nh + 2)),
         ampm |-> SubSeq(u, hh + nh + 3, hh + nh + 4)]

\* consumer_pattern matched at position i: (\d{2})[\./](\d{2})[\./](\d{2})
ConsumerAt(s, i) ==
    /\ IsDigit(At(s, i)) /\ IsDigit(At(s, i + 1))
    /\ At(s, i + 2) \in {".", "/"}
    /\ IsDigit(At(s, i + 3)) /\ IsDigit(At(s, i + 4))
    /\ At(s, i + 5) \in {".", "/"}
    /\ IsDigit(At(s, i + 6)) /\ IsDigit(At(s, i + 7))

\* The year-only pattern matched at position i: \b(19\d{2}|20[0-2]\d)\b
YearOnlyAt(s, i) ==
    /\ ~IsWord(At(s, i - 1))
    /\ \/ At(s, i) = "1" /\ At(s, i + 1) = "9" /\ IsDigit(At(s, i + 2))
       \/ At(s, i) = "2" /\ At(s, i + 1) = "0" /\ At(s, i + 2) \in {"0", "1", "2"}
    /\ IsDigit(At(s, i + 3))
    /\ ~IsWord(At(s, i + 4))

\* The year-only step of _parse_custom
YearOnly(date_str) ==
    LET hits == { i \in 1..Len(date_str) : YearOnlyAt(date_str, i) }
    IN  IF hits = {} THEN None
        ELSE Some(DateTime(ToInt(SubSeq(date_str, MinOf(hits), MinOf(hits) + 3)), 1, 1, 0, 0))

\* A two-digit year expanded while parsing: which step expanded yy to year
Expanded(by, yy, year) == [by |-> by, yy |-> yy, year |-> year]

\* What a parsing step yields: the datetime (or None) and the two-digit
\* years expanded on the way
Outcome(dt, expanded) == [dt |-> dt, expanded |-> expanded]

\* The consumer match (yy, mm, dd): month/day, then day/month, then the
\* year-only step
M_ConsumerNoSwap(date_str, yy, year, mm, dd) ==
    Outcome(IF ValidDateTime(year, mm, dd, 0, 0) THEN Some(DateTime(year, mm, dd, 0, 0))
            ELSE YearOnly(date_str),
            { Expanded("consumer", yy, year) })

ConsumerDate(date_str, yy, year, mm, dd) ==
    Outcome(IF ValidDateTime(year, mm, dd, 0, 0) THEN Some(DateTime(year, mm, dd, 0, 0))
            ELSE IF ValidDateTime(year, dd, mm, 0, 0) THEN Some(DateTime(year, dd, mm, 0, 0))
            ELSE YearOnly(date_str),
            { Expanded("consumer", yy, year) })

\* The consumer match at position i
ConsumerMatch(date_str, i) ==
    ConsumerDate(date_str,
                 ToInt(SubSeq(date_str, i, i + 1)),
                 _two_digit_year_to_full(ToInt(SubSeq(date_str, i, i + 1))),
                 ToInt(SubSeq(date_str, i + 3, i + 4)),
                 ToInt(SubSeq(date_str, i + 6, i + 7)))

\* The consumer step of _parse_custom, then the year-only step
Consumer(date_str) ==
    LET hits == { i \in 1..Len(date_str) : ConsumerAt(date_str, i) }
    IN  IF hits = {} THEN Outcome(YearOnly(date_str), {})
        ELSE ConsumerMatch(date_str, MinOf(hits))

\* MONTH_CODES.get(mon): 0 for an unknown code
MonthOfCode(mon) ==
    IF \E k \in 1..12 : MONTH_CODES[k] = mon
    THEN CHOOSE k \in 1..12 : MONTH_CODES[k] = mon
    ELSE 0

\* The 24-hour clock hour of the APS groups
ApsHour(g) ==
    IF g.ampm = <<"P","M">> /\ g.h # 12 THEN g.h + 12
    ELSE IF g.ampm = <<"A","M">> /\ g.h = 12 THEN 0
    ELSE g.h

\* The APS match: its datetime, or the later steps (rest) when the month
\* code is unknown or the datetime constructor raises
ApsDate(g, year, month, hour, rest) ==
    IF month # 0 /\ ValidDateTime(year, month, g.d, hour, g.m)
    THEN Outcome(Some(DateTime(year, month, g.d, hour, g.m)), { Expanded("aps", g.yy, year) })
    ELSE Outcome(rest.dt, { Expanded("aps", g.yy, year) } \cup rest.expanded)

ApsMatch(g, rest) ==
    ApsDate(g, _two_digit_year_to_full(g.yy), MonthOfCode(g.mon), ApsHour(g), rest)

_parse_custom(date_str) ==
    LET hits == { i \in 1..Len(date_str) : ApsAt(Upper(date_str), i) }
    IN  IF hits = {} THEN Consumer(date_str)
        ELSE ApsMatch(ApsGroups(Upper(date_str), MinOf(hits)), Consumer(date_str))

\* What python-dateutil found in a text: the fields it read (yy: a year
\* written with two digits), or a ValueError
Found(fields) == [raised |-> FALSE, fields |-> fields]
Raises == [raised |-> TRUE]

\* dateutil_parser.parse(text, fuzzy=True, dayfirst=True) on the normalised
\* texts of this model, as python-dateutil 2.9.0 answers
DateutilReads ==
    (<<"9","9","/","j","u","n","/","7"," ","1","1",":","3","2","a","m">> :> Found([yy |-> 99, month |-> 6, day |-> 7, hour |-> 11, minute |-> 32]))
 @@ (<<"9","9","/","j","u","n","/","7"," ","1","2",":","0","0","a","m">> :> Found([yy |-> 99, month |-> 6, day |-> 7, hour |-> 0, minute |-> 0]))
 @@ (<<"6","6","/","j","u","n","/","7"," ","1","1",":","3","2","a","m">> :> Found([yy |-> 66, month |-> 6, day |-> 7, hour |-> 11, minute |-> 32]))
 @@ (<<"0","2",".","1","1",".","1","7">> :> Found([yy |-> 17, month |-> 11, day |-> 2]))
 @@ (<<"8"," ","j","u","n","e"," ","1","9","9","9">> :> Found([year |-> 1999, month |-> 6, day |-> 8]))
 @@ (<<"1"," ","j","a","n","u","a","r","y"," ","2","0","0","0">> :> Found([year |-> 2000, month |-> 1, day |-> 1]))
 @@ (<<"J","u","n","e"," ","1","9","9","9">> :> Found([year |-> 1999, month |-> 6]))
 @@ (<<"J","a","n","u","a","r","y"," ","1","9","6","6">> :> Found([year |-> 1966, month |-> 1]))
 @@ (<<"1","9","9","9">> :> Found([year |-> 1999]))
 @@ (<<"1","9","5","0">> :> Found([year |-> 1950]))
 @@ (<<"2","0","5","2">> :> Found([year |-> 2052]))
 @@ (<<"2","0","5","3">> :> Found([year |-> 2053]))
 @@ (<<"0","0","3","0","-","0","5","-","0","6">> :> Found([year |-> 30, month |-> 6, day |-> 5]))
 @@ (<<"0","0","3","1","-","0","5","-","0","6">> :> Found([year |-> 31, month |-> 6, day |-> 5]))
 @@ (<<"1","9","5","0"," ","1","9","5","1">> :> Raises)
 @@ (<<"1","9","9","9"," ","l","a","b"," ","4","4","7","1">> :> Raises)
 @@ (<<"r","o","l","l"," ","1","2"," ","3","1","/","j","u","n","/","7"," ","1","1",":","3","2","a","m"," ","f","r","a","m","e"," ","4","0">> :> Raises)
 @@ (<<"3","0","/","j","u","n","/","7"," ","1","2",":","0","0","a","m"," ","4","5"," ","6","7">> :> Raises)
 @@ (<<"3","0","/","f","e","b","/","3","0"," ","1","1",":","3","2","a","m">> :> Raises)
 @@ (<<"3","0","/","x","x","x","/","7"," ","1","1",":","3","2","a","m"," ","3","1",".","0","5",".","0","6">> :> Raises)
 @@ (<<"3","0",".","1","2",".","2","5"," ","4","4","7","1">> :> Raises)
 @@ (<<"3","1",".","0","5",".","0","6"," ","l","a","b"," ","4","4","7","1">> :> Raises)
 @@ (<<"6","5",".","1","2",".","3","1"," ","4","4","7","1">> :> Raises)
 @@ (<<"3","0",".","2","5",".","1","2"," ","#","4","4","7","1">> :> Raises)
 @@ (<<"9","9",".","1","3",".","4","5"," ","r","o","l","l"," ","1","9","8","7">> :> Raises)
 @@ (<<"3","0",".","0","2",".","3","0"," ","#","4","4","7","1">> :> Raises)
 @@ (<<"h","e","l","l","o">> :> Raises)
 @@ (<<>> :> Raises)

\* dateutil's year for a year written with two digits: the year of the
\* current century, moved a century when 50 years or more from now
convertyear(yy, now) ==
    LET year == yy + (now.year \div 100) * 100
    IN  IF year >= now.year + 50 THEN year - 100
        ELSE IF year < now.year - 50 THEN year + 100
        ELSE year

\* The datetime dateutil returns: the fields it read, the others taken from
\* its default, the current date at midnight
DateutilResult(r, now, default) ==
    IF r.raised THEN Raises
    ELSE [raised |-> FALSE,
          dt |-> [f \in DOMAIN default |->
                     IF f = "year" /\ "yy" \in DOMAIN r.fields
                     THEN convertyear(r.fields.yy, now)
                     ELSE IF f \in DOMAIN r.fields THEN r.fields[f] ELSE default[f]],
          expanded |-> IF "yy" \in DOMAIN r.fields
                       THEN { Expanded("dateutil", r.fields.yy,
                                       convertyear(r.fields.yy, now)) }
                       ELSE {}]

dateutil_parse(text, now) ==
    DateutilResult(DateutilReads[text], now,
                   [year |-> now.year, month |-> now.month, day |-> now.day,
                    hour |-> 0, minute |-> 0])

\* The range test of parse on the datetime of the try block
InRange(dt, expanded) ==
    IF min_year <= dt.year /\ dt.year <= max_year + 50
    THEN Outcome(Some(dt), expanded)
    ELSE Outcome(None, expanded)

\* The try block of parse: r is what dateutil answered
ParseTry(date_str, r) ==
    IF r.raised THEN _parse_custom(date_str)
    ELSE IF r.dt.year < 100
    THEN InRange(_fix_century(r.dt),
                 r.expanded \cup { Expanded("fix_century", r.dt.year, _fix_century(r.dt).year) })
    ELSE InRange(r.dt, r.expanded)

\* DateParser.parse: the datetime or None (it raises nothing: the ValueError
\* of dateutil leads to _parse_custom), with the two-digit years expanded
parse(date_str, now) ==
    IF date_str = <<>> THEN Outcome(None, {})
    ELSE ParseTry(Strip(date_str), dateutil_parse(_normalize_spanish(Strip(date_str)), now))

\* parse_multiple: the datetime (or None) of every string
parse_multiple(date_strings, now) ==
    [i \in 1..Len(date_strings) |-> parse(date_strings[i], now).dt]

date_score(dt) ==
    (IF dt.day # 1 THEN 100 ELSE 0)
    + (IF dt.month # 1 THEN 10 ELSE 0)
    + (IF dt.hour # 0 \/ dt.minute # 0 THEN 1 ELSE 0)

\* max(valid_dates, key=date_score): the first of the highest-scoring dates
BestOf(parsed_all, valid) ==
    IF valid = {} THEN None
    ELSE parsed_all[MinOf({ i \in valid :
             \A j \in valid : date_score(parsed_all[j].val) <= date_score(parsed_all[i].val) })]

\* valid_dates: the positions of the strings that parsed
ValidOf(parsed_all) == BestOf(parsed_all, { i \in 1..Len(parsed_all) : parsed_all[i].some })

get_best_date(date_strings, now) == ValidOf(parse_multiple(date_strings, now))

----------------------------------------------------------------------------
(* The date run: parse and get_best_date on texts read from photo backs *)

\* The current date (dateutil's default for the fields a text lacks)
Todays == { [year |-> 2026, month |-> 11, day |-> 3], [year |-> 2027, month |-> 1, day |-> 1] }

DateStrings ==
    { <<"9","9","/","J","U","N","/","7"," ","1","1",":","3","2","A","M">>, <<"9","9","/","J","U","N","/","7"," ","1","2",":","0","0","A","M">>, <<"6","6","/","J","U","N","/","7"," ","1","1",":","3","2","A","M">>, <<"0","2",".","1","1",".","1","7">>,
      <<"8"," ","J","u","n","e"," ","1","9","9","9">>, <<"J","u","n","i","o"," ","1","9","9","9">>, <<"E","n","e","r","o"," ","1","9","6","6">>, <<"1","9","9","9">>, <<"1","9","5","0">>, <<"2","0","5","2">>, <<"2","0","5","3">>, <<"0","0","3","0","-","0","5","-","0","6">>, <<"0","0","3","1","-","0","5","-","0","6">>,
      <<"1","9","5","0"," ","1","9","5","1">>, <<"R","o","l","l"," ","1","2"," ","3","1","/","J","U","N","/","7"," ","1","1",":","3","2","A","M"," ","f","r","a","m","e"," ","4","0">>, <<"3","0","/","J","U","N","/","7"," ","1","2",":","0","0","A","M"," ","4","5"," ","6","7">>,
      <<"3","0","/","F","E","B","/","3","0"," ","1","1",":","3","2","A","M">>, <<"3","0","/","X","X","X","/","7"," ","1","1",":","3","2","A","M"," ","3","1",".","0","5",".","0","6">>, <<"3","0",".","1","2",".","2","5"," ","4","4","7","1">>,
      <<" ","3","1",".","0","5",".","0","6"," ","l","a","b"," ","4","4","7","1">>, <<"6","5",".","1","2",".","3","1"," ","4","4","7","1">>, <<"3","0",".","2","5",".","1","2"," ","#","4","4","7","1">>, <<"h","e","l","l","o">>, <<" ">>, <<>>,
      <<"1"," ","J","a","n","u","a","r","y"," ","2","0","0","0">>, <<"1","9","9","9"," ","l","a","b"," ","4","4","7","1">>, <<"9","9",".","1","3",".","4","5"," ","r","o","l","l"," ","1","9","8","7">>, <<"3","0",".","0","2",".","3","0"," ","#","4","4","7","1">> }

\* The candidate texts of one photo back
CandidateStrings ==
    { <<"9","9","/","J","U","N","/","7"," ","1","1",":","3","2","A","M">>, <<"9","9","/","J","U","N","/","7"," ","1","2",":","0","0","A","M">>, <<"8"," ","J","u","n","e"," ","1","9","9","9">>, <<"J","u","n","i","o"," ","1","9","9","9">>,
      <<"1","9","9","9">>, <<"1","9","5","0">>, <<"1","9","5","0"," ","1","9","5","1">>, <<"3","0","/","J","U","N","/","7"," ","1","2",":","0","0","A","M"," ","4","5"," ","6","7">>, <<"3","0",".","2","5",".","1","2"," ","#","4","4","7","1">>,
      <<"0","0","3","1","-","0","5","-","0","6">>, <<"h","e","l","l","o">>, <<"1"," ","J","a","n","u","a","r","y"," ","2","0","0","0">>, <<"1","9","9","9"," ","l","a","b"," ","4","4","7","1">> }

RECURSIVE ListsUpTo(_, _)
ListsUpTo(S, n) ==
    IF n = 0 THEN { <<>> }
    ELSE ListsUpTo(S, n - 1)
         \cup { Append(l, x) : l \in { m \in ListsUpTo(S, n - 1) : Len(m) = n - 1 }, x \in S }

\* The two-digit years expanded while parsing the strings
RECURSIVE ExpandedIn(_, _)
ExpandedIn(date_strings, now) ==
    IF date_strings = <<>> THEN {}
    ELSE parse(Head(date_strings), now).expanded \cup ExpandedIn(Tail(date_strings), now)

\* DateParser.parse(date_str)
Parse(date_str) ==
    /\ run = "date"
    /\ date_call = "none"
    /\ date_call' = "parse"
    /\ date_input' = << date_str >>
    /\ parsed_dates' = << parse(date_str, today).dt >>
    /\ expansions' = parse(date_str, today).expanded
    /\ best_date' = None
    /\ UNCHANGED <<run, today>>
    /\ UNCHANGED <<proposal_vars, discovery_vars, extract_vars, orchestrator_vars, metadata_vars, apply_vars, image_vars>>

\* DateParser.get_best_date(date_strings)
GetBestDate(strings) ==
    /\ run = "date"
    /\ date_call = "none"
    /\ date_call' = "get_best_date"
    /\ date_input' = strings
    /\ parsed_dates' = parse_multiple(strings, today)
    /\ expansions' = ExpandedIn(strings, today)
    /\ best_date' = get_best_date(strings, today)
    /\ UNCHANGED <<run, today>>
    /\ UNCHANGED <<proposal_vars, discovery_vars, extract_vars, orchestrator_vars, metadata_vars, apply_vars, image_vars>>

NextDate ==
    \/ \E s \in DateStrings : Parse(s)
    \/ \E l \in ListsUpTo(CandidateStrings, MaxDates) : GetBestDate(l)

----------------------------------------------------------------------------
(* apply_fastfoto_exif.py: extract_exif_mappings *)

\* The newline character of a text held as one string
NL == "\n"

\* \s of the re module
IsWhite(c) == c \in {" ", "\t", "\n", "\r"}

\* s.strip(chars)
StripChars(s, chars) ==
    LET keep == { i \in 1..Len(s) : s[i] \notin chars }
    IN  IF keep = {} THEN <<>> ELSE SubSeq(s, MinOf(keep), MaxOf(keep))

\* s.split('\n')
RECURSIVE SplitNL(_)
SplitNL(s) ==
    LET i == Find(s, << NL >>)
    IN  IF i = 0 THEN << s >>
        ELSE << SubSeq(s, 1, i - 1) >> \o SplitNL(SubSeq(s, i + 1, Len(s)))

\* Where group 1 starts when \s*\n{n} is matched from position j: \s* is
\* greedy, so after the last n newlines in a row of the white space at j
\* (0: no match)
GroupStart(content, j, n) ==
    LET black == { k \in j..(Len(content) + 1) : ~IsWhite(At(content, k)) }
        stop == MinOf(black)
        ps == { p \in j..(stop - n) : \A d \in 0..(n - 1) : content[p + d] = NL }
    IN  IF ps = {} THEN 0 ELSE MaxOf(ps) + n

\* re.search(marker \s* \n{n} (.*?)(?=until|\Z), content, re.DOTALL).group(1),
\* or None
SectionAfter(content, marker, n, until) ==
    LET starts == { i \in 1..(Len(content) - Len(marker) + 1) :
                      /\ SubSeq(content, i, i + Len(marker) - 1) = marker
                      /\ GroupStart(content, i + Len(marker), n) # 0 }
        g == GroupStart(content, MinOf(starts) + Len(marker), n)
        ends == { e \in g..(Len(content) + 1) :
                    \/ e = Len(content) + 1
                    \/ /\ e + Len(until) - 1 <= Len(content)
                       /\ SubSeq(content, e, e + Len(until) - 1) = until }
    IN  IF starts = {} THEN None ELSE Some(SubSeq(content, g, MinOf(ends) - 1))

\* The EXIF_MAPPINGS section: bold markdown, ## markdown, then plain
exif_section_match(analysis_content) ==
    LET bold == SectionAfter(analysis_content, <<"*","*","E","X","I","F","_","M","A","P","P","I","N","G","S",":","*","*">>, 2, << NL, "-", "-", "-" >>)
        heading == SectionAfter(analysis_content, <<"#","#"," ","E","X","I","F","_","M","A","P","P","I","N","G","S",":">>, 2, << NL, "-", "-", "-" >>)
        plain == SectionAfter(analysis_content, <<"E","X","I","F","_","M","A","P","P","I","N","G","S",":">>, 1, << NL, NL >>)
    IN  IF bold.some THEN bold ELSE IF heading.some THEN heading ELSE plain

pollution_patterns ==
    { <<"n","o","n","e">>, <<"n","o","n","e"," ","v","i","s","i","b","l","e">>, <<"n","o","n","e"," ","g","e","n","e","r","a","t","e","d">>, <<"n","o","n","e"," ","a","v","a","i","l","a","b","l","e">>,
      <<"b","l","a","n","k">>, <<"b","l","a","n","k"," ","-"," ","n","o"," ","t","e","x","t"," ","v","i","s","i","b","l","e">>, <<"b","l","a","n","k"," ","-"," ","n","o"," ","h","a","n","d","w","r","i","t","t","e","n"," ","t","e","x","t"," ","p","r","e","s","e","n","t">>,
      <<"b","l","a","n","k"," ","-"," ","n","o"," ","c","o","n","t","e","x","t"," ","a","v","a","i","l","a","b","l","e">>, <<"b","l","a","n","k"," ","-"," ","n","o"," ","a","p","s"," ","c","o","d","e","s"," ","c","l","e","a","r","l","y"," ","r","e","a","d","a","b","l","e">>,
      <<"b","l","a","n","k"," ","-"," ","n","o"," ","a","p","s"," ","d","a","t","a">>, <<"b","l","a","n","k"," ","-"," ","n","o"," ","a","p","s"," ","d","a","t","a"," ","v","i","s","i","b","l","e">>,
      <<"n","o"," ","t","e","x","t">>, <<"n","o","t"," ","v","i","s","i","b","l","e">>, <<"n","o","t"," ","a","v","a","i","l","a","b","l","e">>, <<"n","o"," ","h","a","n","d","w","r","i","t","t","e","n"," ","c","o","n","t","e","n","t"," ","v","i","s","i","b","l","e">>,
      <<"l","e","a","v","e"," ","e","m","p","t","y">>, <<"l","e","a","v","e"," ","e","m","p","t","y"," ","-"," ","n","o"," ","c","o","n","t","e","x","t"," ","a","v","a","i","l","a","b","l","e">>,
      <<"l","e","a","v","e"," ","e","m","p","t","y"," ","-"," ","n","o"," ","c","o","n","t","e","x","t"," ","a","v","a","i","l","a","b","l","e"," ","f","r","o","m"," ","b","a","c","k"," ","s","c","a","n">>,
      <<"e","m","p","t","y"," ","-"," ","n","o"," ","e","v","e","n","t","/","l","o","c","a","t","i","o","n"," ","c","o","n","t","e","x","t"," ","f","r","o","m"," ","b","a","c","k"," ","s","c","a","n">>,
      <<"p","h","o","t","o"," ","l","a","b"," ","p","r","o","c","e","s","s","i","n","g"," ","b","a","c","k"," ","s","c","a","n">>, <<"b","a","c","k"," ","s","c","a","n"," ","w","i","t","h"," ","d","e","g","r","a","d","e","d"," ","p","r","o","c","e","s","s","i","n","g"," ","d","a","t","a">>,
      <<"n","o"," ","e","x","t","r","a","c","t","a","b","l","e"," ","m","e","t","a","d","a","t","a">>, <<"n","o","t"," ","e","x","t","r","a","c","t","a","b","l","e">>, <<"n","o"," ","c","o","n","t","e","x","t"," ","a","v","a","i","l","a","b","l","e">> }

M_PollutionExactOnly(value) == Strip(Lower(value)) \in pollution_patterns

\* is_pollution for a non-empty value
is_pollution(value) ==
    LET value_lower == Strip(Lower(value))
    IN  \/ value_lower \in pollution_patterns
        \/ \E p \in { <<"b","l","a","n","k">>, <<"n","o","n","e">>, <<"n","o"," ","t","e","x","t">>, <<"n","o","t"," ","v","i","s","i","b","l","e">>, <<"n","o","t"," ","a","v","a","i","l","a","b","l","e">>,
                      <<"l","e","a","v","e"," ","e","m","p","t","y">>, <<"e","m","p","t","y"," ","-">> } : StartsWith(value_lower, p)
        \/ \E p \in { <<"n","o"," ","h","a","n","d","w","r","i","t","t","e","n">>, <<"n","o"," ","a","p","s">>, <<"b","a","c","k"," ","s","c","a","n">>, <<"n","o"," ","c","o","n","t","e","x","t">>,
                      <<"n","o","t"," ","e","x","t","r","a","c","t","a","b","l","e">> } : Contains(value_lower, p)

\* One pass of the field loop: mappings after the line
field_line(mappings, raw) ==
    LET line == Strip(raw)
        skipped == \/ StartsWith(line, <<"(","N","o","t","e",":">>)
                   \/ /\ StartsWith(line, <<"*">>) /\ ~StartsWith(line, <<"*","*">>)
                      /\ ~Contains(line, <<":","*","*">>)
        field == IF StartsWith(line, <<"-"," ","*","*">>) /\ Contains(line, <<":","*","*">>)
                 THEN Strip(SubSeq(line, 3, Len(line))) ELSE line
        markdown == StartsWith(field, <<"*","*">>) /\ Contains(field, <<":","*","*">>)
        parts == IF markdown THEN SplitOnce(field, <<":","*","*">>) ELSE SplitOnce(field, <<":">>)
        key == IF markdown THEN Strip(StripChars(parts[1], {"*"})) ELSE Strip(parts[1])
        value == StripChars(Strip(parts[2]), {"[", "]"})
    IN  IF skipped \/ ~Contains(line, <<":">>) \/ StartsWith(line, <<"#">>) THEN mappings
        ELSE IF value # <<>> /\ ~is_pollution(value) THEN DictSet(mappings, key, value)
        ELSE mappings

\* The field loop over the lines of the section
RECURSIVE field_lines(_, _)
field_lines(mappings, lines) ==
    IF lines = <<>> THEN mappings
    ELSE field_lines(field_line(mappings, Head(lines)), Tail(lines))

generic_patterns ==
    { <<"m","i","x","e","d"," ","h","a","n","d","w","r","i","t","t","e","n">>, <<"h","a","n","d","w","r","i","t","t","e","n"," ","c","o","n","t","e","n","t">>, <<"m","u","l","t","i","p","l","e"," ","e","l","e","m","e","n","t","s">>,
      <<"v","a","r","i","o","u","s"," ","t","e","x","t">>, <<"d","i","f","f","e","r","e","n","t"," ","t","e","x","t">>, <<"t","e","x","t"," ","a","n","d"," ","w","r","i","t","i","n","g">>, <<"s","e","v","e","r","a","l"," ","e","l","e","m","e","n","t","s">> }

IsLetter(c) == IsUpper(c) \/ IsLower(c)

\* re.search(r'^[A-Za-z]+ handwritten text: (.+)$', usercomment): the
\* stripped group 1, or None
verbatim_match(usercomment) ==
    LET others == { i \in 1..(Len(usercomment) + 1) : ~IsLetter(At(usercomment, i)) }
        n == MinOf(others) - 1
        rest == SubSeq(usercomment, n + 1, Len(usercomment))
        lead == <<" ","h","a","n","d","w","r","i","t","t","e","n"," ","t","e","x","t",":"," ">>
    IN  IF n >= 1 /\ StartsWith(rest, lead) /\ Len(rest) > Len(lead)
        THEN Some(Strip(SubSeq(rest, Len(lead) + 1, Len(rest))))
        ELSE None

\* The promotion of the verbatim UserComment text
M_PromoteKeepsDescription(mappings) ==
    LET m == verbatim_match(mappings[<<"U","s","e","r","C","o","m","m","e","n","t">>])
        caption == <<"C","a","p","t","i","o","n","-","A","b","s","t","r","a","c","t">>
        with_caption ==
            IF caption \in DOMAIN mappings
            THEN IF \E p \in generic_patterns : Contains(Lower(mappings[caption]), p)
                 THEN DictSet(mappings, caption, m.val)
                 ELSE mappings
            ELSE DictSet(mappings, caption, m.val)
    IN  IF <<"U","s","e","r","C","o","m","m","e","n","t">> \in DOMAIN mappings /\ m.some
        THEN IF <<"I","m","a","g","e","D","e","s","c","r","i","p","t","i","o","n">> \in DOMAIN mappings THEN with_caption
             ELSE DictSet(with_caption, <<"I","m","a","g","e","D","e","s","c","r","i","p","t","i","o","n">>, m.val)
        ELSE mappings

promote_verbatim(mappings) ==
    LET m == verbatim_match(mappings[<<"U","s","e","r","C","o","m","m","e","n","t">>])
        caption == <<"C","a","p","t","i","o","n","-","A","b","s","t","r","a","c","t">>
        with_caption ==
            IF caption \in DOMAIN mappings
            THEN IF \E p \in generic_patterns : Contains(Lower(mappings[caption]), p)
                 THEN DictSet(mappings, caption, m.val)
                 ELSE mappings
            ELSE DictSet(mappings, caption, m.val)
    IN  IF <<"U","s","e","r","C","o","m","m","e","n","t">> \in DOMAIN mappings /\ m.some
        THEN DictSet(with_caption, <<"I","m","a","g","e","D","e","s","c","r","i","p","t","i","o","n">>, m.val)
        ELSE mappings

extract_exif_mappings(analysis_content) ==
    LET section == exif_section_match(analysis_content)
    IN  IF ~section.some THEN EmptyDict
        ELSE promote_verbatim(field_lines(EmptyDict, SplitNL(section.val)))

----------------------------------------------------------------------------
(* The extraction run: extract_exif_mappings on an analysis file *)

\* A field as it is written in an analysis file
FieldText(f) ==
    IF f.style = "markdown" THEN <<"*","*">> \o f.key \o <<":","*","*"," ">> \o f.value
    ELSE IF f.style = "bullet" THEN <<"-"," ","*","*">> \o f.key \o <<":","*","*"," ">> \o f.value
    ELSE IF f.style = "bracket" THEN f.key \o <<":"," ","[">> \o f.value \o <<"]">>
    ELSE f.key \o <<":"," ">> \o f.value

Field(style, key, value) == [style |-> style, key |-> key, value |-> value]

FieldChoices ==
    { Field("plain", <<"D","a","t","e","T","i","m","e","O","r","i","g","i","n","a","l">>, <<"1","9","9","9",":","0","6",":","0","7"," ","1","1",":","3","2",":","0","0">>),
      Field("markdown", <<"C","a","p","t","i","o","n","-","A","b","s","t","r","a","c","t">>, <<"B","l","a","n","k"," ","-"," ","n","o"," ","t","e","x","t"," ","v","i","s","i","b","l","e">>),
      Field("bullet", <<"C","a","p","t","i","o","n","-","A","b","s","t","r","a","c","t">>, <<"M","i","x","e","d"," ","h","a","n","d","w","r","i","t","t","e","n"," ","n","o","t","e","s">>),
      Field("plain", <<"U","s","e","r","C","o","m","m","e","n","t">>, <<"E","n","g","l","i","s","h"," ","h","a","n","d","w","r","i","t","t","e","n"," ","t","e","x","t",":"," ","H","o","l","a">>),
      Field("bracket", <<"K","e","y","w","o","r","d","s">>, <<"N","o","n","e">>),
      Field("plain", <<"L","o","c","a","t","i","o","n","C","r","e","a","t","e","d","C","i","t","y">>, <<"N","o","t"," ","v","i","s","i","b","l","e"," ","o","n"," ","t","h","i","s"," ","p","h","o","t","o">>),
      Field("bullet", <<"I","m","a","g","e","U","n","i","q","u","e","I","D">>, <<"R","o","l","l"," ","h","a","s"," ","n","o"," ","A","P","S"," ","d","a","t","a">>),
      Field("plain", <<"I","m","a","g","e","D","e","s","c","r","i","p","t","i","o","n">>, <<"A"," ","s","u","m","m","a","r","y">>),
      Field("markdown", <<"C","a","p","t","i","o","n","-","A","b","s","t","r","a","c","t">>, <<"V","e","r","a","n","o"," ","1","9","9","9">>),
      Field("bullet", <<"U","s","e","r","C","o","m","m","e","n","t">>, <<"H","o","l","a"," ","a","m","i","g","o","s">>),
      Field("markdown", <<"U","s","e","r","C","o","m","m","e","n","t">>, <<"S","p","a","n","i","s","h"," ","h","a","n","d","w","r","i","t","t","e","n"," ","t","e","x","t",":"," ","n","o","n","e"," ","v","i","s","i","b","l","e">>) }

\* The section headings an analysis file may carry ("none": no section)
SectionFormats == { "bold", "heading", "plain", "none" }

\* The text of an analysis file: a title, the section with its fields and,
\* with closing, a rule and a remark after it
AnalysisText(format, fields, closing) ==
    LET body == Join([i \in 1..Len(fields) |-> FieldText(fields[i])], << NL >>)
    IN  <<"#"," ","B","a","c","k"," ","s","c","a","n"," ","a","n","a","l","y","s","i","s">> \o << NL, NL >>
        \o (IF format = "bold" THEN <<"*","*","E","X","I","F","_","M","A","P","P","I","N","G","S",":","*","*">> \o << NL, NL >>
            ELSE IF format = "heading" THEN <<"#","#"," ","E","X","I","F","_","M","A","P","P","I","N","G","S",":"," ">> \o << NL, NL >>
            ELSE IF format = "plain" THEN <<"E","X","I","F","_","M","A","P","P","I","N","G","S",":">> \o << NL >>
            ELSE <<"F","i","e","l","d","s",":">> \o << NL, NL >>)
        \o body
        \o (IF closing THEN << NL >> \o (IF format = "plain" THEN << NL >> ELSE <<"-","-","-">> \o << NL >>)
                            \o <<"C","h","e","c","k","e","d"," ","b","y",":"," ","o","p","e","r","a","t","o","r">>
            ELSE <<>>)

\* extract_exif_mappings(analysis_content)
Extract(format, fields, closing) ==
    /\ run = "extract"
    /\ ~exif_mappings.some
    /\ analysis' = [format |-> format, fields |-> fields, closing |-> closing]
    /\ exif_mappings' = Some(extract_exif_mappings(AnalysisText(format, fields, closing)))
    /\ UNCHANGED run
    /\ UNCHANGED <<proposal_vars, discovery_vars, date_vars, orchestrator_vars, metadata_vars, apply_vars, image_vars>>

NextExtract ==
    \E format \in SectionFormats, fields \in ListsUpTo(FieldChoices, MaxFields),
       closing \in BOOLEAN : Extract(format, fields, closing)

----------------------------------------------------------------------------
(* The parse run: _parse_proposal_content on a proposal a user has edited *)

\* Lines of a proposal after editing: entry headers, skip markers at the
\* start of a line and indented, and field lines
LineChoices ==
    { <<"[","0","0","0","1","]"," ","I","M","G","_","1",".","j","p","g">>,
      <<"[","0","0","0","2","]"," ","I","M","G","_","2",".","j","p","g">>,
      <<"S","K","I","P",":">>,
      <<" "," ","S","K","I","P",":"," ","w","r","o","n","g"," ","d","a","t","e">>,
      <<" "," "," "," ","C","a","p","t","i","o","n","-","A","b","s","t","r","a","c","t",":"," ","S","u","m","m","e","r">>,
      <<" "," "," "," ","C","a","p","t","i","o","n","-","A","b","s","t","r","a","c","t",":"," ","n","o","n","e"," ","v","i","s","i","b","l","e">> }

\* InteractiveProcessor._parse_proposal_content on the edited file
ParseEdited(lines) ==
    /\ run = "parse"
    /\ ~parsed.some
    /\ proposal_file' = Some(lines)
    /\ parsed' = Some(_parse_proposal_content(lines))
    /\ UNCHANGED <<run, entries, add_result, write_result, write_grouped>>
    /\ UNCHANGED <<discovery_vars, date_vars, extract_vars, orchestrator_vars, metadata_vars, apply_vars, image_vars>>

NextParse == \E lines \in ListsUpTo(LineChoices, MaxLines) : ParseEdited(lines)

----------------------------------------------------------------------------
(* orchestrator.py: FastFotoOrchestrator.create_proposal *)

\* s[:n]
Take(s, n) == SubSeq(s, 1, IF Len(s) < n THEN Len(s) ELSE n)

\* extract_metadata_from_analysis of the orchestrator, for an analysis that
\* carries free text, a confidence and a language (no dates, locations,
\* people, institutions, events or roll information)
orchestrator_extract_metadata(a) ==
    (IF a.free_text # <<>>
     THEN [caption |-> Take(a.free_text, 1000), user_comment |-> Take(a.free_text, 2000)]
     ELSE [x \in {} |-> <<>>])
    @@ [confidence |-> a.confidence, language |-> a.language]

\* ExifWriter.build_metadata_dict on the keys of such a record
build_metadata_dict(extracted) ==
    (IF "caption" \in DOMAIN extracted
     THEN (<<"C","a","p","t","i","o","n","-","A","b","s","t","r","a","c","t">> :> Str(Take(extracted.caption, 1000)))
          @@ (<<"D","e","s","c","r","i","p","t","i","o","n">> :> Str(Take(extracted.caption, 1000)))
     ELSE EmptyDict)
    @@ (IF "user_comment" \in DOMAIN extracted
        THEN <<"U","s","e","r","C","o","m","m","e","n","t">> :>
                 Str(Take(extracted.user_comment
                          \o (IF extracted.language # <<>>
                              THEN <<" ","[","L","a","n","g","u","a","g","e",":"," ">> \o extracted.language \o <<"]">> ELSE <<>>)
                          \o (IF extracted.confidence # 0
                              THEN <<" ","[","C","o","n","f","i","d","e","n","c","e",":"," ">> \o Fixed2(extracted.confidence) \o <<"]">>
                              ELSE <<>>),
                          2000))
        ELSE EmptyDict)
    @@ (<<"S","o","f","t","w","a","r","e">> :> Str(<<"F","a","s","t","F","o","t","o"," ","O","C","R"," ","v","1",".","0">>))
    @@ (IF extracted.confidence # 0 \/ extracted.language # <<>>
        THEN <<"I","m","a","g","e","D","e","s","c","r","i","p","t","i","o","n">> :>
                 Str(Join((IF extracted.confidence # 0
                           THEN << <<"O","C","R"," ","C","o","n","f","i","d","e","n","c","e",":"," ">> \o Fixed2(extracted.confidence) >>
                           ELSE <<>>)
                          \o (IF extracted.language # <<>>
                              THEN << <<"L","a","n","g","u","a","g","e",":"," ">> \o extracted.language >> ELSE <<>>),
                          <<" ","|"," ">>))
        ELSE EmptyDict)

\* The entry a useful analysis leads to
useful_entry(pair, extracted) ==
    Entry(pair.original, pair.back, pair.current_exif, build_metadata_dict(extracted),
          [confidence |-> extracted.confidence, language |-> extracted.language,
           warnings |-> pair.analysis.val.warnings])

\* One pass of the loop of create_proposal: the entry handed to add_entry, or
\* None when the pass ends without one
pair_entry(pair) ==
    IF ~pair.back.some
    THEN Some(Entry(pair.original, None, EmptyDict, EmptyDict,
                    [confidence |-> 0, warnings |-> << <<"N","o"," ","b","a","c","k"," ","s","c","a","n"," ","f","o","u","n","d">> >>]))
    ELSE IF ~pair.analysis.some THEN None
    ELSE IF ~pair.analysis.val.is_useful
    THEN Some(Entry(pair.original, pair.back, EmptyDict, EmptyDict,
                    [confidence |-> pair.analysis.val.confidence,
                     warnings |-> << <<"N","o"," ","u","s","e","f","u","l"," ","m","e","t","a","d","a","t","a"," ","e","x","t","r","a","c","t","e","d">> >>]))
    ELSE Some(useful_entry(pair, orchestrator_extract_metadata(pair.analysis.val)))

\* add_entry on the entry of a pass; generator = [entries, raised]
add_pair_entry(generator, e) ==
    IF ~e.some THEN generator
    ELSE IF GuardRejects(PathName(e.val.original_path))
    THEN [generator EXCEPT !.raised = TRUE]
    ELSE [generator EXCEPT !.entries = Append(@, e.val)]

\* The loop of create_proposal, ended by the ValueError of add_entry
RECURSIVE process_pairs(_, _)
process_pairs(generator, batch) ==
    IF batch = <<>> \/ generator.raised THEN generator
    ELSE process_pairs(add_pair_entry(generator, pair_entry(Head(batch))), Tail(batch))

\* self.stats as __init__ sets it
NoStats == [total_pairs |-> 0, processed |-> 0, skipped |-> 0, with_updates |-> 0, errors |-> 0]

\* analyze_back_scan ended in its except branch: it counted an error and
\* returned None
AnalysisRaised == [some |-> FALSE, raised |-> TRUE]

\* The counters after one pass of the loop of create_proposal, the count of
\* analyze_back_scan's except branch included; in the last branch add_entry
\* comes before the counters
pair_stats(counters, pair) ==
    LET analysed == IF pair.back.some /\ pair.analysis = AnalysisRaised
                    THEN [counters EXCEPT !.errors = @ + 1] ELSE counters
    IN  IF ~pair.back.some THEN [counters EXCEPT !.skipped = @ + 1]
        ELSE IF ~pair.analysis.some THEN [analysed EXCEPT !.errors = @ + 1]
        ELSE IF ~pair.analysis.val.is_useful THEN [analysed EXCEPT !.skipped = @ + 1]
        ELSE IF GuardRejects(PathName(pair.original)) THEN analysed
        ELSE [analysed EXCEPT
                !.with_updates = IF has_updates(pair_entry(pair).val) THEN @ + 1 ELSE @,
                !.processed = @ + 1]

\* The counters after the loop, which the ValueError of add_entry ends
RECURSIVE count_pairs(_, _)
count_pairs(counters, batch) ==
    IF batch = <<>> THEN counters
    ELSE IF pair_entry(Head(batch)).some
            /\ GuardRejects(PathName(pair_entry(Head(batch)).val.original_path))
    THEN pair_stats(counters, Head(batch))
    ELSE count_pairs(pair_stats(counters, Head(batch)), Tail(batch))

----------------------------------------------------------------------------
(* The orchestrator run: create_proposal on a list of pairs *)

\* A pair with what the collaborators answer for it: analysis is the result
\* of analyze_back_scan (None when it failed), current_exif the result of
\* read_exif ({} when the read failed)
Pair(original, back, result, current_exif) ==
    [original |-> original, back |-> back, analysis |-> result, current_exif |-> current_exif]

Analysis(is_useful, conf, free_text, language, warns) ==
    [is_useful |-> is_useful, confidence |-> conf, free_text |-> free_text,
     language |-> language, warnings |-> warns]

PairChoices ==
    { Pair(Append(DirA, <<"I","M","G","_","1",".","j","p","g">>), None, None, EmptyDict),
      Pair(Append(DirB, <<"I","M","G","_","2",".","j","p","g">>), Some(Append(DirB, <<"I","M","G","_","2","_","b",".","j","p","g">>)), None, EmptyDict),
      Pair(Append(DirA, <<"I","M","G","_","3",".","j","p","g">>), Some(Append(DirA, <<"I","M","G","_","3","_","b",".","j","p","g">>)),
           Some(Analysis(FALSE, 30, <<>>, <<"u","n","k","n","o","w","n">>, <<>>)), EmptyDict),
      Pair(Append(DirA, <<"I","M","G","_","4",".","j","p","g">>), Some(Append(DirA, <<"I","M","G","_","4","_","b",".","j","p","g">>)),
           Some(Analysis(TRUE, 85, <<"V","e","r","a","n","o"," ","1","9","9","9">>, <<"e","s">>, << <<"D","a","t","e"," ","p","a","r","t","l","y"," ","i","l","l","e","g","i","b","l","e">> >>)),
           <<"K","e","y","w","o","r","d","s">> :> <<"f","a","m","i","l","y">>),
      Pair(Append(DirB, <<"I","M","G","_","5",".","j","p","g">>), Some(Append(DirB, <<"I","M","G","_","5","_","b",".","j","p","g">>)),
           Some(Analysis(TRUE, 0, <<>>, <<"e","n">>, <<>>)), EmptyDict),
      Pair(Append(DirA, <<"I","M","G","_","6","_","a",".","j","p","g">>), None, None, EmptyDict),
      Pair(Append(DirA, <<"I","M","G","_","7",".","j","p","g">>), Some(Append(DirA, <<"I","M","G","_","7","_","b",".","j","p","g">>)), AnalysisRaised,
           EmptyDict) }

\* FastFotoOrchestrator.create_proposal(pairs, output_path)
CreateProposal(batch, now) ==
    /\ run = "orchestrator"
    /\ create_result = "none"
    /\ pairs_given' = batch
    /\ stats' = count_pairs(stats, batch)
    /\ LET generator == process_pairs([entries |-> <<>>, raised |-> FALSE], batch)
       IN  /\ entries' = generator.entries
           /\ IF generator.raised
              THEN /\ create_result' = "ValueError"
                   /\ add_result' = "ValueError"
                   /\ UNCHANGED <<proposal_file, write_result, write_grouped>>
              ELSE /\ add_result' = IF generator.entries = <<>> THEN "none" ELSE "ok"
                   /\ write_grouped' = Some(TRUE)
                   /\ IF generator.entries = <<>>
                      THEN /\ proposal_file' = Some(<<>>)
                           /\ write_result' = "ZeroDivisionError"
                           /\ create_result' = "ZeroDivisionError"
                      ELSE /\ proposal_file' =
                                  Some(write_content(generator.entries, TRUE, now, OutputName))
                           /\ write_result' = "ok"
                           /\ create_result' = "ok"
    /\ UNCHANGED <<run, parsed>>
    /\ UNCHANGED <<discovery_vars, date_vars, extract_vars, metadata_vars, apply_vars, image_vars>>

NextOrchestrator ==
    \E batch \in ListsUpTo(PairChoices, MaxPairs), now \in Clock : CreateProposal(batch, now)

----------------------------------------------------------------------------
(* interactive_processor.py: InteractiveProcessor.extract_metadata_from_analysis *)

\* A parsed JSON object is a record of the keys it has; the value of a key is
\* None for null and Some(v) otherwise.  d.get(k)
Key(d, k) == IF k \in DOMAIN d THEN d[k] ELSE None

\* truthiness of a str or list value (None, "" and [] are false)
TrueText(v) == v.some /\ v.val # <<>>

\* truthiness of a bool value
TrueFlag(v) == v.some /\ v.val

\* truthiness of a zone sub-record (None and {} are false)
TrueZone(z) == z.some /\ DOMAIN z.val # {}

\* `zone and zone.get(k)' for a str or list value
ZoneText(z, k) == TrueZone(z) /\ TrueText(Key(z.val, k))

\* all_dates_found: the best date, when there is one
metadata_date(a, now) ==
    IF TrueText(Key(a, "all_dates_found"))
       /\ get_best_date(Key(a, "all_dates_found").val, now).some
    THEN [date |-> get_best_date(Key(a, "all_dates_found").val, now).val]
    ELSE EmptyDict

\* the first location of zone 4
metadata_location(zone4) ==
    IF ZoneText(zone4, "locations")
    THEN [location_name |-> zone4.val.locations.val[1]]
    ELSE EmptyDict

\* people, then events
metadata_keywords(zone4) ==
    IF (IF ZoneText(zone4, "people") THEN zone4.val.people.val ELSE <<>>)
       \o (IF ZoneText(zone4, "events") THEN zone4.val.events.val ELSE <<>>) # <<>>
    THEN [keywords |-> (IF ZoneText(zone4, "people") THEN zone4.val.people.val ELSE <<>>)
                       \o (IF ZoneText(zone4, "events") THEN zone4.val.events.val ELSE <<>>)]
    ELSE EmptyDict

\* descriptive_text, cut to the lengths of the two fields
metadata_text(zone4) ==
    IF ZoneText(zone4, "descriptive_text") /\ Strip(zone4.val.descriptive_text.val) # <<>>
    THEN [caption |-> Take(zone4.val.descriptive_text.val, 1000),
          user_comment |-> Take(zone4.val.descriptive_text.val, 2000)]
    ELSE EmptyDict

\* roll_info[name] = zone[k], when the zone was found and has k
roll_item(zone, k, name) ==
    IF TrueZone(zone) /\ TrueFlag(Key(zone.val, "found")) /\ TrueText(Key(zone.val, k))
    THEN [x \in {name} |-> zone.val[k].val]
    ELSE EmptyDict

\* roll_info: the assignments from zone 2 are made after those from zone 1
roll_info(zone1, zone2) ==
    (roll_item(zone2, "roll_id", "roll_id") @@ roll_item(zone1, "roll_id", "roll_id"))
    @@ (roll_item(zone2, "frame", "frame_number") @@ roll_item(zone1, "frame", "frame_number"))
    @@ roll_item(zone1, "lab_code", "lab_code")

\* confidence (in hundredths; 0.0 when the key is missing)
metadata_confidence(a) ==
    [confidence |-> IF "confidence" \in DOMAIN a THEN a.confidence.val ELSE 0]

metadata_language(zone4) ==
    IF ZoneText(zone4, "language") THEN [language |-> zone4.val.language.val] ELSE EmptyDict

extract_metadata_from_analysis(a, now) ==
    metadata_date(a, now)
    @@ metadata_location(Key(a, "zone_4_handwritten"))
    @@ metadata_keywords(Key(a, "zone_4_handwritten"))
    @@ metadata_text(Key(a, "zone_4_handwritten"))
    @@ roll_info(Key(a, "zone_1_bottom_edge"), Key(a, "zone_2_center"))
    @@ metadata_confidence(a)
    @@ metadata_language(Key(a, "zone_4_handwritten"))

----------------------------------------------------------------------------
(* The metadata run: one analysis of a photo back is mapped to a record *)

\* zone 1 as the vision response may carry it
Zone1Choices ==
    { None,
      Some(EmptyDict),
      Some([found |-> Some(FALSE), roll_id |-> Some(<<"1","1","1","-","2","2","2">>), frame |-> Some(<<"1","2">>),
            lab_code |-> Some(<<"V","I","K","D">>)]),
      Some([found |-> Some(TRUE), roll_id |-> Some(<<"1","1","1","-","2","2","2">>), frame |-> Some(<<"1","2">>),
            lab_code |-> Some(<<"V","I","K","D">>)]),
      Some([found |-> Some(TRUE), roll_id |-> None, frame |-> Some(<<"1","2">>), lab_code |-> None]),
      Some([found |-> Some(TRUE), roll_id |-> Some(<<"1","1","1","-","2","2","2">>), frame |-> Some(<<>>),
            lab_code |-> Some(<<"T","U","L">>)]) }

\* zone 2 (APS data in the centre)
Zone2Choices ==
    { None,
      Some([found |-> Some(FALSE), roll_id |-> Some(<<"I","D","3","3","3","-","4","4","4">>), frame |-> Some(<<"0","7">>)]),
      Some([found |-> Some(TRUE), roll_id |-> Some(<<"I","D","3","3","3","-","4","4","4">>), frame |-> Some(<<"0","7">>)]),
      Some([found |-> Some(TRUE), roll_id |-> Some(<<"I","D","3","3","3","-","4","4","4">>), frame |-> None]),
      Some([found |-> Some(TRUE), roll_id |-> None, frame |-> Some(<<"0","7">>),
            lab_code |-> Some(<<"C","H","I","O","M">>)]) }

\* zone 4 (handwriting)
Zone4Choices ==
    { None,
      Some([found |-> Some(TRUE), locations |-> Some(<< <<"U","t","r","e","c","h","t">>, <<"M","a","d","r","i","d">> >>),
            people |-> Some(<< <<"A","n","a">> >>), events |-> Some(<< <<"B","o","d","a">> >>),
            descriptive_text |-> Some(<<"V","e","r","a","n","o"," ","1","9","9","9">>), language |-> Some(<<"e","s">>)]),
      Some([found |-> Some(TRUE), locations |-> Some(<< <<>> >>),
            people |-> Some(<<>>), events |-> Some(<< <<"B","o","d","a">> >>),
            descriptive_text |-> Some(<<" "," ">>), language |-> Some(<<>>)]),
      Some([found |-> Some(TRUE), locations |-> Some(<< <<>>, <<"L","i","m","a">> >>),
            people |-> None, events |-> None,
            descriptive_text |-> None, language |-> Some(<<"e","n">>)]),
      Some([found |-> Some(FALSE), locations |-> Some(<<>>),
            people |-> Some(<< <<"A","n","a">>, <<"L","u","i","s">> >>), events |-> Some(<<>>),
            descriptive_text |-> Some(<<>>), language |-> None]) }

\* all_dates_found
AllDatesChoices ==
    { None, Some(<<>>), Some(<< <<"8"," ","J","u","n","e"," ","1","9","9","9">> >>), Some(<< <<"h","e","l","l","o">> >>),
      Some(<< <<"1","9","9","9">>, <<"8"," ","J","u","n","e"," ","1","9","9","9">> >>) }

\* the top-level keys other than the zones
TopChoices ==
    { [all_dates_found |-> d] : d \in AllDatesChoices }
    \cup { [all_dates_found |-> d, confidence |-> Some(c)] : d \in AllDatesChoices, c \in {0, 85} }

VisionAnalysis(top, zone1, zone2, zone4) ==
    top @@ [zone_1_bottom_edge |-> zone1, zone_2_center |-> zone2, zone_4_handwritten |-> zone4]

ExtractMetadata(a) ==
    /\ run = "metadata"
    /\ ~vision_analysis.some
    /\ vision_analysis' = Some(a)
    /\ metadata_record' = extract_metadata_from_analysis(a, today)
    /\ UNCHANGED <<run, proposal_vars, discovery_vars, date_vars, extract_vars, orchestrator_vars,
                   apply_vars, image_vars>>

NextMetadata ==
    \E top \in TopChoices, zone1 \in Zone1Choices, zone2 \in Zone2Choices, zone4 \in Zone4Choices :
        ExtractMetadata(VisionAnalysis(top, zone1, zone2, zone4))
----------------------------------------------------------------------------
(* interactive_processor.py: InteractiveProcessor.apply_proposal *)

\* _find_file_in_directory: the first file of the scan of the directory
\* whose name is filename (None when there is none); scan is the order in
\* which rglob yields the files below the directory
_find_file_in_directory(scan, filename) ==
    IF \E i \in 1..Len(scan) : PathName(scan[i]) = filename
    THEN Some(scan[MinOf({ i \in 1..Len(scan) : PathName(scan[i]) = filename })])
    ELSE None

\* The counters and the calls made on the EXIF writer so far
NoCalls ==
    [updated_count |-> 0, organized_count |-> 0, skipped_count |-> 0, error_count |-> 0,
     writes |-> <<>>, moves |-> <<>>]

\* The back scan of a written photo is handed to organize_processed_back_scan;
\* organize is what the call does: "moved", "failed" (it returns false) or
\* "raises"
organize_back(acc, back_path, organize) ==
    IF ~back_path.some THEN acc
    ELSE [acc EXCEPT !.moves = Append(@, back_path.val),
                     !.organized_count = IF organize = "moved" THEN @ + 1 ELSE @,
                     !.error_count = IF organize = "raises" THEN @ + 1 ELSE @]

\* The try block of the loop for an entry whose photo is original_path;
\* write_ok is the answer of write_exif
apply_updates(acc, k, original_path, back_path, proposed_updates, dry_run, write_ok, organize) ==
    IF dry_run THEN [acc EXCEPT !.updated_count = @ + 1]
    ELSE IF write_ok
    THEN organize_back([acc EXCEPT !.updated_count = @ + 1,
                                   !.writes = Append(@, [entry |-> k, path |-> original_path,
                                                         updates |-> proposed_updates])],
                       back_path, organize)
    ELSE [acc EXCEPT !.error_count = @ + 1,
                     !.writes = Append(@, [entry |-> k, path |-> original_path,
                                           updates |-> proposed_updates])]

\* One pass of the loop over the parsed entries, for the k-th of them
M_ApplyIgnoresSkip(acc, k, e, scan, dry_run, write_ok, organize) ==
    IF e.proposed_updates = EmptyDict
    THEN [acc EXCEPT !.skipped_count = @ + 1]
    ELSE IF ~_find_file_in_directory(scan, e.original_path).some
    THEN [acc EXCEPT !.error_count = @ + 1]
    ELSE apply_updates(acc, k, _find_file_in_directory(scan, e.original_path).val,
                       IF e.back_path.some /\ e.back_path.val # <<>>
                       THEN _find_file_in_directory(scan, e.back_path.val) ELSE None,
                       e.proposed_updates, dry_run, write_ok, organize)

apply_entry(acc, k, e, scan, dry_run, write_ok, organize) ==
    IF e.skip \/ e.proposed_updates = EmptyDict
    THEN [acc EXCEPT !.skipped_count = @ + 1]
    ELSE IF ~_find_file_in_directory(scan, e.original_path).some
    THEN [acc EXCEPT !.error_count = @ + 1]
    ELSE apply_updates(acc, k, _find_file_in_directory(scan, e.original_path).val,
                       IF e.back_path.some /\ e.back_path.val # <<>>
                       THEN _find_file_in_directory(scan, e.back_path.val) ELSE None,
                       e.proposed_updates, dry_run, write_ok, organize)

\* The loop over the parsed entries es[k..]
RECURSIVE apply_entries(_, _, _, _, _, _, _)
apply_entries(acc, k, es, scan, dry_run, write_ok, organize) ==
    IF k > Len(es) THEN acc
    ELSE apply_entries(apply_entry(acc, k, es[k], scan, dry_run, write_ok, organize),
                       k + 1, es, scan, dry_run, write_ok, organize)

\* apply_proposal on the content of an existing proposal file
apply_proposal(content, scan, dry_run, write_ok, organize) ==
    apply_entries(NoCalls, 1, _parse_proposal_content(content), scan, dry_run, write_ok, organize)

----------------------------------------------------------------------------
(* The apply run: a proposal is written for a batch of entries, the user   *)
(* may mark one entry with SKIP:, and the proposal is applied              *)

\* A photo of directory a with the file name of EntryCaption's photo
EntryTwin ==
    Entry(Append(DirA, <<"I","M","G","_","1",".","j","p","g">>), Some(Append(DirA, <<"I","M","G","_","1","_","b",".","j","p","g">>)),
          EmptyDict, <<"C","a","p","t","i","o","n","-","A","b","s","t","r","a","c","t">> :> Str(<<"W","i","n","t","e","r">>), [confidence |-> 88])

\* The entries a proposal is written for
ApplyChoices == { EntryTwin, EntryCaption, EntryNoBack, EntryNoUseful }

\* What the EXIF writer does: write_exif answers write_ok, and
\* organize_processed_back_scan moves the back scan or raises
WriterChoices ==
    { [write_ok |-> TRUE, organize |-> "moved"], [write_ok |-> TRUE, organize |-> "raises"],
      [write_ok |-> FALSE, organize |-> "moved"] }

\* The photos and back scans of the entries, below the source directory /p
FilesOf(batch) ==
    { batch[i].original_path : i \in 1..Len(batch) }
    \cup { batch[i].back_path.val : i \in { j \in 1..Len(batch) : batch[j].back_path.some } }

\* Two of the orders in which the scan of the source directory can yield
\* the files: by path, and the reverse
ScanOrders(files) ==
    { SortPaths(files),
      [i \in 1..Cardinality(files) |-> SortPaths(files)[Cardinality(files) + 1 - i]] }

\* The proposal with a SKIP: line added below the k-th entry header (k = 0:
\* the proposal as written)
MarkSkip(content, k) ==
    LET headers == SortInts({ i \in 1..Len(content) :
                                content[i] # <<>> /\ content[i][1] = "[" })
    IN  IF k = 0 \/ k > Len(headers) THEN content
        ELSE SubSeq(content, 1, headers[k]) \o << <<"S","K","I","P",":">> >>
             \o SubSeq(content, headers[k] + 1, Len(content))

\* ProposalGenerator.write for the batch, and the user's mark on the file
ProposalWritten(batch, mark) ==
    /\ run = "apply"
    /\ ~apply_file.some
    /\ apply_file' = Some([batch |-> batch, mark |-> mark,
                           content |-> MarkSkip(write_content(batch, TRUE, <<"2","0","2","5","-","0","3","-","0","9"," ","1","0",":","1","5",":","0","0">>,
                                                              OutputName), mark)])
    /\ UNCHANGED <<apply_given, apply_result>>
    /\ UNCHANGED <<run, proposal_vars, discovery_vars, date_vars, extract_vars,
                   orchestrator_vars, metadata_vars, image_vars>>

\* apply_proposal(proposal_path, source_dir, dry_run) on the file
ApplyProposal(scan, dry_run, write_ok, organize) ==
    /\ run = "apply"
    /\ apply_file.some
    /\ ~apply_given.some
    /\ apply_given' = Some([scan |-> scan, dry_run |-> dry_run, write_ok |-> write_ok,
                            organize |-> organize])
    /\ apply_result' = apply_proposal(apply_file.val.content, scan, dry_run, write_ok, organize)
    /\ UNCHANGED apply_file
    /\ UNCHANGED <<run, proposal_vars, discovery_vars, date_vars, extract_vars,
                   orchestrator_vars, metadata_vars, image_vars>>

NextApply ==
    \/ \E batch \in ListsUpTo(ApplyChoices, MaxApplied) \ { <<>> } :
          \E mark \in 0..Len(batch) : ProposalWritten(batch, mark)
    \/ /\ apply_file.some
       /\ \E scan \in ScanOrders(FilesOf(apply_file.val.batch)), dry_run \in BOOLEAN,
             writer \in WriterChoices :
               ApplyProposal(scan, dry_run, writer.write_ok, writer.organize)
----------------------------------------------------------------------------
(* image_processor.py: ImageProcessor, and orchestrator.py:                *)
(* FastFotoOrchestrator.analyze_back_scan                                   *)

\* A back scan image: "small" is within the limits, "large" exceeds the
\* size or dimension limit, "unreadable" cannot be opened as an image
Image(name, kind) == [name |-> name, kind |-> kind]

\* needs_resize: over a limit, or the dimensions cannot be read ("resize to
\* be safe")
needs_resize(image) == image.kind # "small"

\* resize_image with the default output path temp_dir / name: it raises when
\* the image cannot be opened and when the save fails because the
\* directory does not exist; [raised, path, files]
resize_image(dir_exists, files, image) ==
    IF image.kind = "unreadable" \/ ~dir_exists
    THEN [raised |-> TRUE, path |-> <<>>, files |-> files]
    ELSE [raised |-> FALSE, path |-> << <<"/","t","m","p","/","f","a","s","t","f","o","t","o","_","o","c","r">>, image.name >>,
          files |-> files \cup { image.name }]

\* prepare_for_ocr: the image itself, or the resized copy
prepare_for_ocr(dir_exists, files, image) ==
    IF ~needs_resize(image)
    THEN [raised |-> FALSE, path |-> << <<"/","s","c","a","n","s">>, image.name >>, files |-> files]
    ELSE resize_image(dir_exists, files, image)

\* cleanup: the temp directory is removed with all it holds, unless rmtree
\* fails; [dir_exists, files]
cleanup(dir_exists, files, rmtree_ok) ==
    IF dir_exists /\ rmtree_ok THEN [dir_exists |-> FALSE, files |-> {}]
    ELSE [dir_exists |-> dir_exists, files |-> files]

\* What analyze_back_scan returns: the parsed response, or None when the
\* preparation raised, there was no response or it could not be parsed
analysis_result(prepared, response) ==
    IF ~prepared.raised /\ response = "parsed" THEN Some(prepared.path) ELSE None

----------------------------------------------------------------------------
(* The image run: analyze_back_scan calls on one orchestrator *)

ImageChoices ==
    { Image(<<"I","M","G","_","1","_","b",".","j","p","g">>, "small"), Image(<<"I","M","G","_","2","_","b",".","j","p","g">>, "large"),
      Image(<<"I","M","G","_","3","_","b",".","j","p","g">>, "unreadable") }

\* What the Read tool analysis gives: no response, one that cannot be
\* parsed, one that can
ResponseChoices == { "none", "unparsed", "parsed" }

\* FastFotoOrchestrator.analyze_back_scan(back_path), with the cleanup of
\* its finally block
AnalyzeBackScan(image, response, rmtree_ok) ==
    /\ run = "image"
    /\ Len(analyze_calls) < MaxCalls
    /\ LET prepared == prepare_for_ocr(temp_dir, temp_files, image)
           cleaned == cleanup(temp_dir, prepared.files, rmtree_ok)
       IN  /\ analyze_errors' = IF prepared.raised THEN analyze_errors + 1 ELSE analyze_errors
           /\ temp_dir' = cleaned.dir_exists
           /\ temp_files' = cleaned.files
           /\ analyze_calls' =
                  Append(analyze_calls,
                         [image |-> image, dir_existed |-> temp_dir,
                          prepared |-> IF prepared.raised THEN "raised"
                                       ELSE IF needs_resize(image) THEN "resized"
                                       ELSE "original",
                          result |-> analysis_result(prepared, response)])
    /\ UNCHANGED <<run, proposal_vars, discovery_vars, date_vars, extract_vars,
                   orchestrator_vars, metadata_vars, apply_vars>>

NextImage ==
    \E image \in ImageChoices, response \in ResponseChoices, rmtree_ok \in BOOLEAN :
        AnalyzeBackScan(image, response, rmtree_ok)
----------------------------------------------------------------------------
(* Properties of the proposal writer and parser *)

\* The order in which the written document lists the entries (indices into es)
ExpectedOrder(es, grouped) ==
    IF grouped
    THEN LET dirs == SortPaths({PathParent(es[i].original_path) : i \in 1..Len(es)})
         IN  Flatten([k \in 1..Len(dirs) |->
                 SortInts({i \in 1..Len(es) : PathParent(es[i].original_path) = dirs[k]})])
    ELSE [i \in 1..Len(es) |-> i]

\* The input entry the i-th entry of the document was written from
WrittenEntry(i) == entries[ExpectedOrder(entries, write_grouped.val)[i]]

\* An entry whose proposed values are short scalars under non-descriptive labels
ShortScalars(e) ==
    \A k \in DOMAIN e.proposed_updates :
        /\ e.proposed_updates[k].kind = "str"
        /\ e.proposed_updates[k].s # <<>>
        /\ Len(e.proposed_updates[k].s) <= 60
        /\ k \notin descriptive_fields

\* proposed_fields as the parser represents them: field -> text
ProposedText(e) == [k \in DOMAIN e.proposed_updates |-> e.proposed_updates[k].s]

\* C1: for every entry whose proposed values are short scalars, the entry
\* parsed back from the written proposal has exactly the keys and values of
\* the entry's proposed_fields: nothing is added from the CURRENT EXIF lines,
\* the Status line, the warnings, the metadata or the directory summary.
C1_ProposedFieldsRoundTrip ==
    (parsed.some /\ write_result = "ok") =>
        /\ Len(parsed.val) = Len(entries)
        /\ \A i \in 1..Len(entries) :
               ShortScalars(WrittenEntry(i)) =>
                   parsed.val[i].proposed_updates = ProposedText(WrittenEntry(i))

HasGuardedSuffix(name) ==
    \E sfx \in { <<"_","a",".","j","p","g">>, <<"_","a",".","j","p","e","g">>, <<"_","b",".","j","p","g">>, <<"_","b",".","j","p","e","g">> } :
        Len(name) >= Len(sfx) /\ SubSeq(name, Len(name) - Len(sfx) + 1, Len(name)) = sfx

\* C2: add_entry raises exactly for an original whose file name ends in
\* _a.jpg, _a.jpeg, _b.jpg or _b.jpeg and then leaves the entry list as it
\* was; no accepted entry and no entry header of the written proposal
\* carries such a name.
C2_GuardStep ==
    /\ add_result' = "ValueError" => entries' = entries
    /\ \A i \in 1..Len(entries') : ~HasGuardedSuffix(PathName(entries'[i].original_path))
    /\ Len(entries') > Len(entries) => add_result' = "ok"
    /\ proposal_file'.some =>
           \A i \in 1..Len(proposal_file'.val) :
               proposal_file'.val[i] # <<>> /\ proposal_file'.val[i][1] = "["
                   => ~HasGuardedSuffix(proposal_file'.val[i])

C2_CorruptionGuard == [][C2_GuardStep]_vars

\* A rejected add_entry, a list that kept its accepted entries, and a proposal
\* written afterwards
C2_Witness ==
    /\ add_result = "ValueError"
    /\ Len(entries) >= 1
    /\ write_result = "ok"

\* C8: the parsed proposal has one entry per input entry, in document order,
\* each with the input's original file name and skip = false.
C8_CountAndSkipRoundTrip ==
    parsed.some =>
        /\ Len(parsed.val) = Len(entries)
        /\ \A i \in 1..Len(entries) :
               /\ parsed.val[i].original_path = PathName(WrittenEntry(i).original_path)
               /\ parsed.val[i].skip = FALSE

\* Three entries of two directories, added interleaved, with and without a
\* back scan and with and without updates, written grouped and parsed
C8_Witness ==
    /\ parsed.some
    /\ Len(entries) = 3
    /\ write_grouped = Some(TRUE)
    /\ ExpectedOrder(entries, TRUE) # <<1, 2, 3>>
    /\ \E i \in 1..3 : ~entries[i].back_path.some
    /\ \E i \in 1..3 : entries[i].back_path.some /\ has_updates(entries[i])
    /\ \E i \in 1..3 : entries[i].back_path.some /\ ~has_updates(entries[i])

\* C9: for every entry written and parsed back, the parsed back_path equals the back path of the input entry
\* and is absent when the entry has no back scan.
C9_BackPathRoundTrip ==
    parsed.some =>
        \A i \in 1..Len(entries) :
            i <= Len(parsed.val) /\
            parsed.val[i].back_path =
                IF WrittenEntry(i).back_path.some
                THEN Some(PathStr(WrittenEntry(i).back_path.val))
                ELSE None

\* The positions of the entry headers in the written document, in order
WrittenHeaders ==
    SortInts({ i \in 1..Len(proposal_file.val) :
                 proposal_file.val[i] # <<>> /\ proposal_file.val[i][1] = "[" })

\* The index shown by the k-th entry header of the written document
ShownIndex(k) == ToInt(SubSeq(proposal_file.val[WrittenHeaders[k]], 2, 5))

\* C13: in a proposal written grouped by directory, the index shown for each
\* entry is the entry's 1-based position in the order the entries were added.
C13_StableGlobalIndex ==
    (write_result = "ok" /\ write_grouped = Some(TRUE)) =>
        /\ Len(WrittenHeaders) = Len(entries)
        /\ \A k \in 1..Len(entries) : ShownIndex(k) = ExpectedOrder(entries, TRUE)[k]

\* C14: write raises nothing and leaves a complete document, from the header
\* block to the END OF PROPOSAL footer, for every entry list.
C14_AlwaysProducesProposal ==
    write_result # "none" =>
        /\ write_result = "ok"
        /\ proposal_file.some
        /\ Len(proposal_file.val) >= 7
        /\ SubSeq(proposal_file.val, 1, 2) = << Rep("=", 80), <<"F","a","s","t","F","o","t","o"," ","O","C","R"," ","-"," ","E","X","I","F"," ","U","p","d","a","t","e"," ","P","r","o","p","o","s","a","l">> >>
        /\ SubSeq(proposal_file.val, Len(proposal_file.val) - 2, Len(proposal_file.val))
               = << Rep("=", 80), <<"E","N","D"," ","O","F"," ","P","R","O","P","O","S","A","L">>, Rep("=", 80) >>

\* C16: no accepted entry has an original that is a back scan in the sense of
\* FileDiscovery.is_back_file (a photo extension and a stem ending in _b or _B).
C16_GuardCoversBackSuffixes ==
    \A i \in 1..Len(entries) : ~is_back_file(entries[i].original_path)
----------------------------------------------------------------------------
(* Properties of discover_pairs *)

\* A name with a photo extension whose stem ends in _b or _B
BackName(name) ==
    \E ext \in { <<".","j","p","g">>, <<".","j","p","e","g">>, <<".","t","i","f">>, <<".","t","i","f","f">>, <<".","J","P","G">>, <<".","J","P","E","G">>, <<".","T","I","F">>, <<".","T","I","F","F">> },
       sfx \in { <<"_","b">>, <<"_","B">> } :
        /\ Len(name) >= Len(sfx) + Len(ext)
        /\ SubSeq(name, Len(name) - Len(ext) + 1, Len(name)) = ext
        /\ SubSeq(name, Len(name) - Len(ext) - Len(sfx) + 1, Len(name) - Len(ext)) = sfx

\* The files on disk that the search of the root directory covers
Discovered ==
    { f \in tree :
        /\ Len(f) > Len(RootDir) /\ SubSeq(f, 1, Len(RootDir)) = RootDir
        /\ discover_recursive.val \/ Len(f) = Len(RootDir) + 1
        /\ \E i \in 1..Len(DEFAULT_EXTENSIONS) : EndsWith(PathName(f), DEFAULT_EXTENSIONS[i]) }

DiscoveredBacks == { f \in Discovered : BackName(PathName(f)) }
DiscoveredOriginals == { f \in Discovered : ~BackName(PathName(f)) }

\* C3: discover_pairs emits exactly one pair per discovered non-back file,
\* whether or not a back was found for it, and no pair has a back file as
\* its original.
C3_PairingExactness ==
    discover_result = "ok" =>
        /\ Len(pairs) = Cardinality(DiscoveredOriginals)
        /\ { pairs[i].original : i \in 1..Len(pairs) } = DiscoveredOriginals
        /\ \A i \in 1..Len(pairs) : ~BackName(PathName(pairs[i].original))

\* A recursive search that found an original with its upper-case back and,
\* in a subdirectory, an original without a back
C3_Witness ==
    /\ discover_result = "ok"
    /\ discover_recursive = Some(TRUE)
    /\ \E i \in 1..Len(pairs) : pairs[i].back.some
    /\ \E i \in 1..Len(pairs) : ~pairs[i].back.some
    /\ Append(RootDir, <<"I","M","G","_","1","_","B",".","j","p","g">>) \in DiscoveredBacks
    /\ \E f \in DiscoveredOriginals : Len(f) > Len(RootDir) + 1

\* The original a back file stands for: the same name without the suffix
OriginalOf(f) ==
    LET name == PathName(f)
        dot == MaxOf({ i \in 1..Len(name) : name[i] = "." })
    IN  Append(SubSeq(f, 1, Len(f) - 1),
               SubSeq(name, 1, dot - 3) \o SubSeq(name, dot, Len(name)))

\* C4: a discovered back file whose original is not among the discovered
\* non-back files is in the orphan list and is no pair's back; a back file
\* whose original was discovered is not in the orphan list.
C4_OrphanDetection ==
    discover_result = "ok" =>
        \A b \in DiscoveredBacks :
            IF OriginalOf(b) \in DiscoveredOriginals
            THEN b \notin orphaned
            ELSE /\ b \in orphaned
                 /\ \A i \in 1..Len(pairs) : pairs[i].back # Some(b)


\* the number of pairs with a back scan
WithBacks == Cardinality({ i \in 1..Len(pairs) : pairs[i].back.some })

\* C21: after analyze_naming_patterns and discover_pairs on the same
\* directory (searched the same way), total_back_scans equals the number of
\* pairs that have a back scan.
C21_AnalysisAgreesWithPairing ==
    (discover_result = "ok" /\ patterns.some /\ analyze_recursive = discover_recursive)
        => patterns.val.back_scans.total_back_scans = WithBacks

\* The discovered pairs as create_proposal meets them when the analysis of
\* every back scan ends with a
PairsAnalysed(ps, a) ==
    [i \in 1..Len(ps) |-> Pair(ps[i].original, ps[i].back, a, EmptyDict)]

\* C27: for every directory tree, create_proposal run on the output of
\* discover_pairs never raises the error of add_entry's guard: every
\* original the pairer emits is accepted by the guard, also a front image
\* whose name ends in _a.jpg.
C27_PairerAndGuardAgree ==
    discover_result = "ok" =>
        \A a \in { None, Some(Analysis(FALSE, 30, <<>>, <<"u","n","k","n","o","w","n">>, <<>>)) } :
            ~process_pairs([entries |-> <<>>, raised |-> FALSE], PairsAnalysed(pairs, a)).raised
----------------------------------------------------------------------------
(* Properties of DateParser *)

\* C5: whichever path produced it (dateutil, APS, consumer stamp or
\* year-only), a date returned by parse has its year in
\* [min_year, max_year + 50]; everything else is returned as absent.
C5_OutOfRangeRejection ==
    \A i \in 1..Len(parsed_dates) :
        parsed_dates[i].some =>
            /\ 1966 <= parsed_dates[i].val.year
            /\ parsed_dates[i].val.year <= 2052

\* A clock time hh:mm written in the text
HasTimeOfDay(text) ==
    \E i \in 2..(Len(text) - 2) :
        /\ text[i] = ":"
        /\ text[i - 1] \in { "0", "1", "2", "3", "4", "5", "6", "7", "8", "9" }
        /\ text[i + 1] \in { "0", "1", "2", "3", "4", "5" }
        /\ text[i + 2] \in { "0", "1", "2", "3", "4", "5", "6", "7", "8", "9" }

\* The score of candidate i as stated: 100 for a day other than 1, 10 for a
\* month other than 1, 1 for a time of day in the candidate
StatedScore(i) ==
    (IF parsed_dates[i].val.day # 1 THEN 100 ELSE 0)
    + (IF parsed_dates[i].val.month # 1 THEN 10 ELSE 0)
    + (IF HasTimeOfDay(date_input[i]) THEN 1 ELSE 0)

\* C6: get_best_date returns absent exactly when no candidate parses, and
\* otherwise the earliest-listed parsed candidate of maximal score, the score
\* being 100 if the day is not 1, plus 10 if the month is not 1, plus 1 if
\* the candidate has a time-of-day component.
C6_BestOfMany ==
    date_call = "get_best_date" =>
        LET survivors == { i \in 1..Len(parsed_dates) : parsed_dates[i].some }
            top == { i \in survivors : \A j \in survivors : StatedScore(j) <= StatedScore(i) }
        IN  IF survivors = {} THEN best_date = None
            ELSE best_date = parsed_dates[CHOOSE i \in top : \A j \in top : i <= j]

\* C7: every two-digit year yy expanded while parsing, in the general parse
\* (dateutil, _fix_century) as in the APS and consumer-stamp matchers, becomes
\* 2000 + yy when yy <= 30 and 1900 + yy when yy >= 31.
C7_CenturyDisambiguation ==
    \A e \in expansions :
        /\ e.yy \in 0..99
        /\ e.yy <= 30 => e.year = 2000 + e.yy
        /\ e.yy >= 31 => e.year = 1900 + e.yy


\* The candidate texts that give day, month and year, and those that give a
\* year and nothing else of a date
FullDateTexts ==
    { <<"9","9","/","J","U","N","/","7"," ","1","1",":","3","2","A","M">>, <<"9","9","/","J","U","N","/","7"," ","1","2",":","0","0","A","M">>, <<"8"," ","J","u","n","e"," ","1","9","9","9">>, <<"1"," ","J","a","n","u","a","r","y"," ","2","0","0","0">>,
      <<"3","0","/","J","U","N","/","7"," ","1","2",":","0","0","A","M"," ","4","5"," ","6","7">>, <<"3","0",".","2","5",".","1","2"," ","#","4","4","7","1">>, <<"0","0","3","1","-","0","5","-","0","6">> }

YearOnlyTexts == { <<"1","9","9","9">>, <<"1","9","5","0">>, <<"1","9","9","9"," ","l","a","b"," ","4","4","7","1">> }

\* C17: when the candidates hold a fully specified date that parses and a
\* year-only text that parses, get_best_date returns the date of a fully
\* specified candidate, whichever comes first.
C17_SpecificBeatsCoarse ==
    (/\ date_call = "get_best_date"
     /\ \E i \in 1..Len(date_input) : date_input[i] \in FullDateTexts /\ parsed_dates[i].some
     /\ \E j \in 1..Len(date_input) : date_input[j] \in YearOnlyTexts /\ parsed_dates[j].some)
    => \E i \in 1..Len(date_input) :
           date_input[i] \in FullDateTexts /\ parsed_dates[i].some /\ best_date = parsed_dates[i]

\* The texts for which parse reaches the consumer matcher: dateutil finds no
\* date in them and the APS matcher yields none
StampTexts ==
    { <<"3","0",".","1","2",".","2","5"," ","4","4","7","1">>, <<" ","3","1",".","0","5",".","0","6"," ","l","a","b"," ","4","4","7","1">>, <<"6","5",".","1","2",".","3","1"," ","4","4","7","1">>, <<"3","0",".","2","5",".","1","2"," ","#","4","4","7","1">>,
      <<"9","9",".","1","3",".","4","5"," ","r","o","l","l"," ","1","9","8","7">>, <<"3","0",".","0","2",".","3","0"," ","#","4","4","7","1">>, <<"3","0","/","X","X","X","/","7"," ","1","1",":","3","2","A","M"," ","3","1",".","0","5",".","0","6">> }

\* The first YY[./]AA[./]BB of a text
StampOf(text) ==
    LET digits == { "0", "1", "2", "3", "4", "5", "6", "7", "8", "9" }
        at == MinOf({ i \in 1..(Len(text) - 7) :
                        /\ \A k \in { 0, 1, 3, 4, 6, 7 } : text[i + k] \in digits
                        /\ text[i + 2] \in { ".", "/" } /\ text[i + 5] \in { ".", "/" } })
    IN  [yy |-> ToInt(SubSeq(text, at, at + 1)),
         aa |-> ToInt(SubSeq(text, at + 3, at + 4)),
         bb |-> ToInt(SubSeq(text, at + 6, at + 7))]

\* (month, day) is a day of the calendar of year
ValidMonthDay(year, month, day) ==
    /\ month \in 1..12
    /\ day >= 1
    /\ day <= (IF month = 2
               THEN (IF year % 4 = 0 /\ (year % 100 # 0 \/ year % 400 = 0) THEN 29 ELSE 28)
               ELSE IF month \in { 4, 6, 9, 11 } THEN 30 ELSE 31)

\* what the claim asks of the result for a stamp and the year of its YY
StampResult(text, stamp, year, result) ==
    IF ValidMonthDay(year, stamp.aa, stamp.bb)
    THEN result = Some(DateTime(year, stamp.aa, stamp.bb, 0, 0))
    ELSE IF stamp.aa > 12 /\ ValidMonthDay(year, stamp.bb, stamp.aa)
    THEN result = Some(DateTime(year, stamp.bb, stamp.aa, 0, 0))
    ELSE result = YearOnly(text)

\* C23: for a stamp YY.AA.BB that reaches the consumer matcher, the result is
\* year/AA/BB when (AA, BB) is a valid (month, day), year/BB/AA when AA is
\* above 12 and (BB, AA) is a valid (month, day), and otherwise what the
\* year-only matcher gives.
C23_ConsumerStamp ==
    (date_call = "parse" /\ date_input[1] \in StampTexts) =>
        StampResult(Strip(date_input[1]), StampOf(Strip(date_input[1])),
                    _two_digit_year_to_full(StampOf(Strip(date_input[1])).yy),
                    parsed_dates[1])

\* The stamp 30.25.12: 25 is no month, so it is read as 25 December 2030
C23_Witness ==
    /\ date_call = "parse"
    /\ date_input = << <<"3","0",".","2","5",".","1","2"," ","#","4","4","7","1">> >>
    /\ parsed_dates = << Some(DateTime(2030, 12, 25, 0, 0)) >>

\* The stamp 99.13.45: neither reading is a date, the year-only matcher
\* finds 1987
C23_WitnessYearOnly ==
    /\ date_call = "parse"
    /\ date_input = << <<"9","9",".","1","3",".","4","5"," ","r","o","l","l"," ","1","9","8","7">> >>
    /\ parsed_dates = << Some(DateTime(1987, 1, 1, 0, 0)) >>
----------------------------------------------------------------------------
(* Properties of extract_exif_mappings *)

\* A value that is a non-answer: in lower case it is a configured phrase,
\* starts with a non-answer prefix or contains a non-answer phrase
NonAnswer(value) ==
    LET v == Lower(value)
    IN  \/ v \in pollution_patterns
        \/ \E n \in 1..Len(v) :
              SubSeq(v, 1, n) \in { <<"b","l","a","n","k">>, <<"n","o","n","e">>, <<"n","o"," ","t","e","x","t">>, <<"n","o","t"," ","v","i","s","i","b","l","e">>,
                                    <<"n","o","t"," ","a","v","a","i","l","a","b","l","e">>, <<"l","e","a","v","e"," ","e","m","p","t","y">>, <<"e","m","p","t","y"," ","-">> }
        \/ \E i \in 1..Len(v), j \in 1..Len(v) :
              SubSeq(v, i, j) \in { <<"n","o"," ","h","a","n","d","w","r","i","t","t","e","n">>, <<"n","o"," ","a","p","s">>, <<"b","a","c","k"," ","s","c","a","n">>,
                                    <<"n","o"," ","c","o","n","t","e","x","t">>, <<"n","o","t"," ","e","x","t","r","a","c","t","a","b","l","e">> }

\* C10: extract_exif_mappings returns a mapping (it raises nothing) in which
\* a field line whose value is a non-answer has added no key: the line's key
\* is in the result only when another line gives it an answer or the verbatim
\* UserComment text is promoted to it, and never with the line's value.
C10_PollutionDropped ==
    exif_mappings.some =>
        \A i \in 1..Len(analysis.fields) :
            LET f == analysis.fields[i]
            IN  NonAnswer(f.value) /\ f.key \in DOMAIN exif_mappings.val =>
                    /\ exif_mappings.val[f.key] # f.value
                    /\ \/ \E j \in 1..Len(analysis.fields) :
                             /\ analysis.fields[j].key = f.key
                             /\ ~NonAnswer(analysis.fields[j].value)
                       \/ /\ f.key \in { <<"C","a","p","t","i","o","n","-","A","b","s","t","r","a","c","t">>, <<"I","m","a","g","e","D","e","s","c","r","i","p","t","i","o","n">> }
                          /\ <<"U","s","e","r","C","o","m","m","e","n","t">> \in DOMAIN exif_mappings.val

\* An analysis with an answer and the non-answer "Blank - no text visible":
\* the answer is in the result, the non-answer's key is not
C10_Witness ==
    /\ exif_mappings.some
    /\ analysis.format = "bold"
    /\ \E i \in 1..Len(analysis.fields) :
          /\ analysis.fields[i].value = <<"B","l","a","n","k"," ","-"," ","n","o"," ","t","e","x","t"," ","v","i","s","i","b","l","e">>
          /\ analysis.fields[i].key \notin DOMAIN exif_mappings.val
    /\ <<"D","a","t","e","T","i","m","e","O","r","i","g","i","n","a","l">> \in DOMAIN exif_mappings.val

\* The mapping of the field lines of the analysis, before any promotion
Extracted ==
    LET section == exif_section_match(AnalysisText(analysis.format, analysis.fields,
                                                   analysis.closing))
    IN  IF section.some THEN field_lines(EmptyDict, SplitNL(section.val)) ELSE EmptyDict

\* The payloads of a text of the form "<Language> handwritten text: <payload>"
\* (a language is one or more letters); there is at most one
Payloads(text) ==
    { Strip(SubSeq(text, n + 20, Len(text))) :
        n \in { k \in 1..Len(text) :
                  /\ \A i \in 1..k : IsLetter(text[i])
                  /\ Len(text) >= k + 20
                  /\ SubSeq(text, k + 1, k + 19) = <<" ","h","a","n","d","w","r","i","t","t","e","n"," ","t","e","x","t",":"," ">> } }

\* a boilerplate phrase starts at some position of the lower-case text
GenericIn(low) ==
    \E p \in { <<"m","i","x","e","d"," ","h","a","n","d","w","r","i","t","t","e","n">>, <<"h","a","n","d","w","r","i","t","t","e","n"," ","c","o","n","t","e","n","t">>, <<"m","u","l","t","i","p","l","e"," ","e","l","e","m","e","n","t","s">>,
                <<"v","a","r","i","o","u","s"," ","t","e","x","t">>, <<"d","i","f","f","e","r","e","n","t"," ","t","e","x","t">>, <<"t","e","x","t"," ","a","n","d"," ","w","r","i","t","i","n","g">>, <<"s","e","v","e","r","a","l"," ","e","l","e","m","e","n","t","s">> } :
        \E i \in 1..Len(low) :
            i + Len(p) - 1 <= Len(low) /\ SubSeq(low, i, i + Len(p) - 1) = p

\* a caption with a boilerplate phrase
Generic(caption) == GenericIn(Lower(caption))

\* what the claim asks of the result for a mapping of the field lines
Promoted(base, result) ==
    IF <<"U","s","e","r","C","o","m","m","e","n","t">> \in DOMAIN base /\ Payloads(base[<<"U","s","e","r","C","o","m","m","e","n","t">>]) # {}
    THEN \A payload \in Payloads(base[<<"U","s","e","r","C","o","m","m","e","n","t">>]) :
            /\ <<"I","m","a","g","e","D","e","s","c","r","i","p","t","i","o","n">> \in DOMAIN result
            /\ result[<<"I","m","a","g","e","D","e","s","c","r","i","p","t","i","o","n">>] = payload
            /\ <<"C","a","p","t","i","o","n","-","A","b","s","t","r","a","c","t">> \in DOMAIN base =>
                  result[<<"C","a","p","t","i","o","n","-","A","b","s","t","r","a","c","t">>] =
                      IF Generic(base[<<"C","a","p","t","i","o","n","-","A","b","s","t","r","a","c","t">>]) THEN payload
                      ELSE base[<<"C","a","p","t","i","o","n","-","A","b","s","t","r","a","c","t">>]
            /\ \A k \in DOMAIN base \ { <<"I","m","a","g","e","D","e","s","c","r","i","p","t","i","o","n">>, <<"C","a","p","t","i","o","n","-","A","b","s","t","r","a","c","t">> } :
                  k \in DOMAIN result /\ result[k] = base[k]
    ELSE result = base

\* C20: when the extracted UserComment reads "<Language> handwritten text:
\* <payload>", the result's ImageDescription is the payload whatever
\* ImageDescription the analysis gave, and a Caption-Abstract the analysis
\* gave is replaced by the payload only when it holds a boilerplate phrase;
\* with no UserComment or one that does not read so, the result is the
\* mapping of the field lines unchanged.
C20_VerbatimPromotion == exif_mappings.some => Promoted(Extracted, exif_mappings.val)

\* An analysis whose UserComment carries a payload and which gives an
\* ImageDescription of its own: the result's ImageDescription is the payload
C20_Witness ==
    /\ exif_mappings.some
    /\ <<"U","s","e","r","C","o","m","m","e","n","t">> \in DOMAIN Extracted
    /\ Payloads(Extracted[<<"U","s","e","r","C","o","m","m","e","n","t">>]) = { <<"H","o","l","a">> }
    /\ <<"I","m","a","g","e","D","e","s","c","r","i","p","t","i","o","n">> \in DOMAIN Extracted
    /\ Extracted[<<"I","m","a","g","e","D","e","s","c","r","i","p","t","i","o","n">>] = <<"A"," ","s","u","m","m","a","r","y">>
    /\ exif_mappings.val[<<"I","m","a","g","e","D","e","s","c","r","i","p","t","i","o","n">>] = <<"H","o","l","a">>

\* The same with a Caption-Abstract that holds no boilerplate phrase: it is kept
C20_WitnessCaption ==
    /\ exif_mappings.some
    /\ <<"U","s","e","r","C","o","m","m","e","n","t">> \in DOMAIN Extracted
    /\ Payloads(Extracted[<<"U","s","e","r","C","o","m","m","e","n","t">>]) = { <<"H","o","l","a">> }
    /\ <<"C","a","p","t","i","o","n","-","A","b","s","t","r","a","c","t">> \in DOMAIN Extracted
    /\ exif_mappings.val[<<"C","a","p","t","i","o","n","-","A","b","s","t","r","a","c","t">>] = <<"V","e","r","a","n","o"," ","1","9","9","9">>

\* C28: every value of the mapping extract_exif_mappings returns is
\* non-empty and is no pollution value under the filter's own rules,
\* the Caption-Abstract and ImageDescription written by the promotion of
\* the verbatim text included.
C28_NoPollutionInResult ==
    exif_mappings.some =>
        \A k \in DOMAIN exif_mappings.val :
            exif_mappings.val[k] # <<>> /\ ~is_pollution(exif_mappings.val[k])
----------------------------------------------------------------------------
(* Properties of _parse_proposal_content on an edited proposal *)

\* C11: a field line whose value is a non-answer adds no field: no parsed
\* entry has a non-answer among the values of its proposed_updates.
C11_ParserPollutionFilter ==
    parsed.some =>
        \A i \in 1..Len(parsed.val) :
            \A k \in DOMAIN parsed.val[i].proposed_updates :
                ~NonAnswer(parsed.val[i].proposed_updates[k])

\* The positions of the entry headers of the file, in order
HeaderLines ==
    SortInts({ i \in 1..Len(proposal_file.val) :
                 /\ StartsWith(Strip(proposal_file.val[i]), <<"[">>)
                 /\ Contains(Strip(proposal_file.val[i]), <<"]"," ">>) })

\* A skip marker between the k-th header and the next header or the end
SkipMarked(k) ==
    \E j \in 1..Len(proposal_file.val) :
        /\ HeaderLines[k] < j
        /\ k < Len(HeaderLines) => j < HeaderLines[k + 1]
        /\ StartsWith(Strip(proposal_file.val[j]), <<"S","K","I","P",":">>)

\* C12: the parsed entries are those of the headers, and an entry has
\* skip = true exactly when a line starting with SKIP: stands between its
\* header and the next header or the end of the file; a SKIP: line before the
\* first header marks nothing, one after a header marks that entry only.
C12_SkipMarker ==
    parsed.some =>
        /\ Len(parsed.val) = Len(HeaderLines)
        /\ \A k \in 1..Len(HeaderLines) : parsed.val[k].skip = SkipMarked(k)

\* A SKIP: line before the first header, a header, a SKIP: line after it and
\* a second header without one: the first entry is skipped, the second is not
C12_Witness ==
    /\ parsed.some
    /\ Len(proposal_file.val) = 4
    /\ StartsWith(Strip(proposal_file.val[1]), <<"S","K","I","P",":">>)
    /\ Len(parsed.val) = 2
    /\ parsed.val[1].skip
    /\ ~parsed.val[2].skip


\* The lines from the k-th header up to the next header or the end
EntryLines(k) ==
    SubSeq(proposal_file.val, HeaderLines[k],
           IF k < Len(HeaderLines) THEN HeaderLines[k + 1] - 1 ELSE Len(proposal_file.val))

\* The file name a header line carries
HeaderName(line) ==
    LET s == Strip(line)
        close == MinOf({ i \in 1..(Len(s) - 1) : s[i] = "]" /\ s[i + 1] = " " })
    IN  Strip(SubSeq(s, close + 2, Len(s)))

----------------------------------------------------------------------------
(* Properties of create_proposal *)

\* C15: create_proposal never aborts on a collaborator failure and adds
\* exactly one entry per pair, in processing order; a pair whose analysis
\* failed has an entry that carries a warning.  (The guard of add_entry on the
\* original's name is the one failure that may end the run.)
C15_OneEntryPerPair ==
    (create_result # "none" /\ create_result # "ValueError") =>
        /\ create_result = "ok"
        /\ Len(entries) = Len(pairs_given)
        /\ \A i \in 1..Len(pairs_given) :
               i <= Len(entries) =>
                   /\ entries[i].original_path = pairs_given[i].original
                   /\ (pairs_given[i].back.some /\ ~pairs_given[i].analysis.some)
                          => warnings(entries[i]) # <<>>

\* C29: after create_proposal over N pairs, starting from zeroed counters,
\* processed + skipped + errors equals N: every pair is counted in exactly
\* one of the three counters, however its analysis ended.
C29_CounterConservation ==
    create_result = "ok" =>
        stats.processed + stats.skipped + stats.errors = Len(pairs_given)
----------------------------------------------------------------------------
(* Claims on the metadata extractor *)

\* the value zone z supplies for key k (None when the zone was not found or
\* lacks it)
Supplied(z, k) ==
    IF TrueZone(z) /\ TrueFlag(Key(z.val, "found")) /\ TrueText(Key(z.val, k))
    THEN Key(z.val, k) ELSE None

\* the value the record must carry under name, from zone 1's and zone 2's key k
Preferred(a, k) ==
    IF Supplied(a.zone_1_bottom_edge, k).some THEN Supplied(a.zone_1_bottom_edge, k)
    ELSE Supplied(a.zone_2_center, k)

Carried(name) == IF name \in DOMAIN metadata_record THEN Some(metadata_record[name]) ELSE None

\* C18: roll_id and frame_number come from zone 1 whenever zone 1 supplies
\* them and from zone 2 only when zone 1 lacks them; lab_code comes from
\* zone 1 only.
C18_Zone1Preferred ==
    vision_analysis.some =>
        /\ Carried("roll_id") = Preferred(vision_analysis.val, "roll_id")
        /\ Carried("frame_number") = Preferred(vision_analysis.val, "frame")
        /\ Carried("lab_code") = Supplied(vision_analysis.val.zone_1_bottom_edge, "lab_code")

\* C19: every text or list the returned record holds is non-empty: a source
\* value that is empty or null leaves its key out of the record.
C19_AbsentMeansAbsent ==
    vision_analysis.some =>
        \A k \in DOMAIN metadata_record \ {"date", "confidence"} : metadata_record[k] # <<>>
----------------------------------------------------------------------------
(* Properties of apply_proposal *)

\* what C24 asks of the calls made, for the parsed entries es
OnlyApproved(es, given, result) ==
    /\ \A i \in 1..Len(result.writes) :
          /\ ~given.dry_run
          /\ ~es[result.writes[i].entry].skip
          /\ es[result.writes[i].entry].proposed_updates # EmptyDict
    /\ given.dry_run => result.writes = <<>> /\ result.moves = <<>>

\* C24: the EXIF write is invoked for an entry only when dry_run is false,
\* the entry is not marked SKIP and its parsed proposed_updates is not
\* empty; with dry_run true there is no EXIF write and no move of a back
\* scan at all.
C24_WritesOnlyAfterApproval ==
    apply_given.some =>
        OnlyApproved(_parse_proposal_content(apply_file.val.content), apply_given.val,
                     apply_result)

\* Two entries with updates, the first marked with SKIP:, applied for real:
\* one entry is skipped and the one write is for the second entry
C24_Witness ==
    /\ apply_given.some
    /\ ~apply_given.val.dry_run
    /\ apply_file.val.batch = << EntryTwin, EntryCaption >>
    /\ apply_file.val.mark = 1
    /\ apply_result.skipped_count = 1
    /\ Len(apply_result.writes) = 1
    /\ apply_result.writes[1].entry = 2

\* The same proposal applied with dry_run: an entry is counted as updated
\* and nothing is written or moved
C24_WitnessDryRun ==
    /\ apply_given.some
    /\ apply_given.val.dry_run
    /\ apply_file.val.batch = << EntryTwin, EntryCaption >>
    /\ apply_result.updated_count >= 1
    /\ apply_result.writes = <<>>
    /\ apply_result.moves = <<>>

\* The entry of the batch shown at position k of the written proposal
ShownEntry(batch, k) == batch[ExpectedOrder(batch, TRUE)[k]]

\* The positions of the written proposal whose entry proposes nothing
NoUpdateShown(batch) ==
    { k \in 1..Len(batch) : ShownEntry(batch, k).proposed_updates = EmptyDict }

\* C25: when a written proposal is applied unedited with dry_run false, the
\* EXIF write is never invoked for a photo whose entry had no proposed
\* fields (no back scan, or a back scan with nothing useful), and such
\* entries are counted as skipped.
C25_NoUpdateUntouched ==
    (apply_given.some /\ ~apply_given.val.dry_run /\ apply_file.val.mark = 0) =>
        /\ \A i \in 1..Len(apply_result.writes) :
              apply_result.writes[i].entry \notin NoUpdateShown(apply_file.val.batch)
        /\ apply_result.skipped_count = Cardinality(NoUpdateShown(apply_file.val.batch))

\* C26: for every entry of a written proposal, the file apply_proposal hands
\* to the EXIF write is the original photo the entry was created for, also
\* when photos of different directories below the source directory share a
\* file name.
C26_TargetIdentity ==
    apply_given.some =>
        \A i \in 1..Len(apply_result.writes) :
            apply_result.writes[i].path
                = ShownEntry(apply_file.val.batch, apply_result.writes[i].entry).original_path
----------------------------------------------------------------------------
(* Properties of the temp directory *)

\* C30: across any sequence of analyze_back_scan calls on one orchestrator
\* the temp directory exists whenever resize_image writes into it: a
\* readable image that needs resizing is prepared successfully, also in a
\* call that follows the cleanup of an earlier call.
C30_TempDirLifecycle ==
    \A i \in 1..Len(analyze_calls) :
        analyze_calls[i].image.kind = "large" =>
            /\ analyze_calls[i].dir_existed
            /\ analyze_calls[i].prepared = "resized"
----------------------------------------------------------------------------
(* Specifications *)

Runs == { "proposal", "discovery", "date", "extract", "parse", "orchestrator", "metadata",
          "apply", "image" }

Init ==
    /\ run \in Runs
    /\ entries = <<>>
    /\ add_result = "none"
    /\ proposal_file = None
    /\ write_result = "none"
    /\ write_grouped = None
    /\ parsed = None
    /\ tree \in (IF run = "discovery" THEN TreeChoices ELSE { {} })
    /\ all_files = <<>>
    /\ pairs = <<>>
    /\ orphaned = {}
    /\ discover_recursive = None
    /\ discover_result = "none"
    /\ patterns = None
    /\ analyze_recursive = None
    /\ today \in (IF run = "date" THEN Todays ELSE { [year |-> 2026, month |-> 11, day |-> 3] })
    /\ date_call = "none"
    /\ date_input = <<>>
    /\ parsed_dates = <<>>
    /\ expansions = {}
    /\ best_date = None
    /\ analysis = None
    /\ exif_mappings = None
    /\ pairs_given = <<>>
    /\ create_result = "none"
    /\ stats = NoStats
    /\ vision_analysis = None
    /\ metadata_record = EmptyDict
    /\ apply_file = None
    /\ apply_given = None
    /\ apply_result = NoCalls
    /\ temp_dir = TRUE
    /\ temp_files = {}
    /\ analyze_errors = 0
    /\ analyze_calls = <<>>

Next ==
    \/ NextProposal
    \/ NextDiscovery
    \/ NextPatterns
    \/ NextDate
    \/ NextExtract
    \/ NextParse
    \/ NextOrchestrator
    \/ NextMetadata
    \/ NextApply
    \/ NextImage

Spec == Init /\ [][Next]_vars

InitProposal == Init /\ run = "proposal"

SpecProposal == InitProposal /\ [][NextProposal]_vars

InitDiscovery == Init /\ run = "discovery"

SpecDiscovery == InitDiscovery /\ [][NextDiscovery \/ NextPatterns]_vars

InitDate == Init /\ run = "date"

SpecDate == InitDate /\ [][NextDate]_vars

InitExtract == Init /\ run = "extract"

SpecExtract == InitExtract /\ [][NextExtract]_vars

InitParse == Init /\ run = "parse"

SpecParse == InitParse /\ [][NextParse]_vars

InitOrchestrator == Init /\ run = "orchestrator"

SpecOrchestrator == InitOrchestrator /\ [][NextOrchestrator]_vars
InitMetadata == Init /\ run = "metadata"

SpecMetadata == InitMetadata /\ [][NextMetadata]_vars
InitApply == Init /\ run = "apply"

SpecApply == InitApply /\ [][NextApply]_vars

InitImage == Init /\ run = "image"

SpecImage == InitImage /\ [][NextImage]_vars

====
